---- MODULE Spec2Model ----
(***************************************************************************)
(* Model of the Bun runtime interface client: the invocation loop          *)
(* (Runtime), the completion machinery (CallbackContext), the process-wide *)
(* drain hook (BeforeExitListener), the streaming context and sink, and    *)
(* the control-plane client (RAPIDClient).                                 *)
(*                                                                         *)
(* The event loop is modelled explicitly: `immediates' is the queue of     *)
(* setImmediate callbacks, `polls' the number of handleOnce activations    *)
(* awaiting nextInvocation, and the in-flight entries of `posts' are the   *)
(* HTTP calls that have not settled.  The drain hook (process 'beforeExit')*)
(* fires only when none of these is pending.  The handler is the           *)
(* environment: during its synchronous run nothing else executes; after it *)
(* has returned it may still call the completion entry points (work that   *)
(* does not keep the event loop alive, e.g. unref'd timers), until the     *)
(* next invocation is dispatched.                                          *)
(*                                                                         *)
(* Components are also taken in isolation, each with its own              *)
(* specification: SinkSpec (one AwsWritableStream used by a handler, then  *)
(* finalizeAndPostStream), ErrorsSpec (toRapidResponse applied to a value),*)
(* HeadersSpec (an InvokeContext built from a header object), DeliverySpec *)
(* (one next-invocation response on its way to the handler's context),     *)
(* ClientSpec (the report methods of RAPIDClient), BreakerSpec (one        *)
(* CircuitBreaker) and RecoverySpec (ErrorRecoverySystem's retry loop).    *)
(***************************************************************************)
EXTENDS Naturals, Integers, Sequences, FiniteSets, TLC

\* ---------------------------------------------------------------- bounds
MaxInv == 1       \* invocations the control plane hands out
MaxCalls == 2     \* entry-point calls the handlers make in a run
MaxFatal == 1     \* process-level uncaughtException / unhandledRejection events
MaxWrites == 1    \* sink operations the streaming handlers make in a run
MaxOps == 3       \* methods called on a sink taken in isolation
MaxHeaders == 2
MaxTime == 3
MaxReads == 2
MaxClientCalls == 2
MaxExec == 4
MaxRetries == 2
MaxRuns == 2   \* entries of a header object given to InvokeContext in isolation

\* ---------------------------------------------------------------- values
DEL == "DEL"      \* the character 0x7F

\* Error arguments: null/undefined, Error objects, plain strings.  stack is the
\* text of the stack property, "\n" separating its lines.
NullErr == [tag |-> "null", name |-> <<>>, message |-> <<>>, stack |-> <<>>]
ErrRange == [tag |-> "error", name |-> <<"R">>, message |-> <<"b">>, stack |-> <<"s">>]
ErrDel == [tag |-> "error", name |-> <<"R", DEL>>, message |-> <<DEL>>,
           stack |-> <<"s", DEL>>]
StrErr == [tag |-> "string", name |-> <<>>, message |-> <<"x", DEL>>, stack |-> <<>>]
Errs == {ErrRange, ErrDel, StrErr}
ErrArgs == Errs \cup {NullErr}

\* Result values passed to succeed / done / callback, or resolved by a promise.
Results == {"undefined", "v1"}

NoError == [errorType |-> <<>>, errorMessage |-> <<>>, trace |-> <<>>, hasTrace |-> FALSE]

\* String.prototype.replace(/\x7F/g, '%7F')
RECURSIVE Escape7F(_)
Escape7F(s) ==
    IF s = <<>> THEN <<>>
    ELSE (IF Head(s) = DEL THEN <<"%", "7", "F">> ELSE <<Head(s)>>) \o Escape7F(Tail(s))

\* String.prototype.split('\n'): the lines of s
RECURSIVE SplitLines(_)
SplitLines(s) ==
    IF \A i \in 1..Len(s) : s[i] # "\n" THEN <<s>>
    ELSE LET n == CHOOSE i \in 1..Len(s) : s[i] = "\n" /\ \A j \in 1..(i - 1) : s[j] # "\n"
         IN <<SubSeq(s, 1, n - 1)>> \o SplitLines(SubSeq(s, n + 1, Len(s)))

ErrorName == <<"E", "r", "r", "o", "r">>

\* Mutant: every value is wrapped in a new Error, Error objects included.
intoError_alwaysWraps(err) ==
    [tag |-> "error", name |-> ErrorName, message |-> err.message, stack |-> <<"s">>]

\* typeof value
typeof(v) ==
    CASE v.tag = "string" -> <<"string">>
      [] v.tag = "null" -> <<"undefined">>
      [] OTHER -> <<"object">>

\* String(value) for a value whose conversion does not throw
String(v) ==
    CASE v.tag = "string" -> v.message
      [] v.tag = "null" -> <<"undefined">>
      [] v.tag = "error" -> v.name \o <<":", " ">> \o v.message
      [] OTHER -> <<"[object Object]">>

\* err instanceof Error ? err : new Error(String(err))
intoError(err) ==
    IF err.tag = "error" THEN err
    ELSE [tag |-> "error", name |-> ErrorName,
          message |-> IF err.tag = "null" THEN <<"n", "u", "l", "l">> ELSE String(err),
          stack |-> <<"s">>]

\* Errors._isError: name, message and stack are non-empty strings
_isError(obj) ==
    obj.tag = "errorlike" /\ obj.name # <<>> /\ obj.message # <<>> /\ obj.stack # <<>>

\* The outcome of an expression that throws.
Thrown == [errorType |-> <<"thrown">>, errorMessage |-> <<>>, trace |-> <<>>,
           hasTrace |-> FALSE]

\* The fixed response of toRapidResponse's catch block.
HandledFallback ==
    [errorType |-> <<"handled">>,
     errorMessage |-> <<"callback called with Error argument, but there was a problem while retrieving one or more of its message, name, and stack">>,
     trace |-> <<>>, hasTrace |-> FALSE]

\* The try block of toRapidResponse.  The tag "hostile" is a value whose
\* accessors or string conversion throw.
toRapidResponseTry(error) ==
    IF error.tag = "hostile" THEN Thrown
    ELSE IF error.tag = "error" \/ _isError(error)
    THEN [errorType |-> IF Escape7F(error.name) = <<>> THEN ErrorName
                        ELSE Escape7F(error.name),
          errorMessage |-> Escape7F(error.message),
          trace |-> SplitLines(Escape7F(error.stack)), hasTrace |-> TRUE]
    ELSE [errorType |-> typeof(error), errorMessage |-> String(error),
          trace |-> <<>>, hasTrace |-> TRUE]

\* Mutant: no catch block.
toRapidResponse_noCatch(error) == toRapidResponseTry(error)

\* Errors.toRapidResponse
toRapidResponse(error) ==
    IF toRapidResponseTry(error) = Thrown THEN HandledFallback
    ELSE toRapidResponseTry(error)

\* ---------------------------------------------------------------- state
VARIABLES
    isBun,                  \* process.versions.bun is set
    streaming,              \* handlerMetadata.streaming === STREAM_RESPONSE_VALUE
    exitCode,               \* -1 while the process runs, else its exit code
    listener,               \* globalThis[LISTENER_SYMBOL]
    errorCb,                \* invocation id the errorCallbacks are bound to, 0 = init
    immediates,             \* queue of setImmediate callbacks
    polls,                  \* handleOnce activations awaiting nextInvocation
    served,                 \* invocations handed out so far (ids 1..served)
    cur,                    \* id of the invocation whose context was built last
    hphase,                 \* position of run() / of the handler / of handleOnce for cur
    finished,               \* _wrappedCallbackContext.finished
    isCompleteInvoked,      \* _rawCallbackContext.isCompleteInvoked
    waitForEmptyEventLoop,  \* the context's callbackWaitsForEmptyEventLoop
    sink,                   \* AwsWritableStream state of cur (streaming mode)
    posts,                  \* control-plane report calls issued, in order
    nCalls,                 \* history: entry-point calls made on cur's context
    win,                    \* history: the winning entry-point call of cur
    firedSinceWin,          \* history: the drain hook ran a listener after the winning call
    outcome,                \* history: how the handler's run for cur ended
    nFatal,                 \* history: process-level fatal events raised
    nWrites,                \* history: sink operations made by the handlers
    totalCalls,             \* history: entry-point calls made by the handlers
    rawHeaders,             \* history: the JSON-bearing headers the control plane sent for cur
    contextData,            \* the header data handleOnce's InvokeContext holds for cur
    lastOp,                 \* sink in isolation: the last method called, its argument and outcome
    accepted,               \* sink in isolation: bytes of the chunks write() accepted, in order
    posted,                 \* sink in isolation: what finalizeAndPostStream handed to the client
    nOps,                   \* sink in isolation: methods called so far
    val,                    \* toRapidResponse in isolation: the value converted
    resp,                   \* toRapidResponse in isolation: the response object
    hdrs,                   \* InvokeContext in isolation: the header object given
    meta,                   \* InvokeContext in isolation: the metadata it exposes
    clock,                  \* components in isolation: Date.now()
    builtAt,                \* delivery in isolation: Date.now() when _headerData ran
    remaining,              \* delivery in isolation: the readings of getRemainingTimeInMillis
    clientCalls,            \* RAPIDClient in isolation: the calls made and how each ended
    breaker,                \* CircuitBreaker in isolation: the fields of the breaker
    pending,                \* CircuitBreaker in isolation: calls of fn not yet settled
    lastExec,               \* CircuitBreaker in isolation: the last execute and what it did
    recovery                \* ErrorRecoverySystem in isolation: the runs of executeWithRecovery

extvars == <<clock, builtAt, remaining, clientCalls, breaker, pending, lastExec, recovery>>

unitvars == <<lastOp, accepted, posted, nOps, val, resp, hdrs, meta, extvars>>

vars == <<isBun, streaming, exitCode, listener, errorCb, immediates, polls, served,
          cur, hphase, finished, isCompleteInvoked, waitForEmptyEventLoop, sink,
          posts, nCalls, win, firedSinceWin, outcome, nFatal, nWrites, totalCalls,
          rawHeaders, contextData, unitvars>>

\* ------------------------------------------------------ BeforeExitListener
NO_OP_LISTENER == [kind |-> "noop", id |-> 0, result |-> "undefined"]
DefaultListener(id) == [kind |-> "default", id |-> id, result |-> "undefined"]
DeferredListener(id, result) == [kind |-> "deferred", id |-> id, result |-> result]
StreamExitListener(id) == [kind |-> "streamExit", id |-> id, result |-> "undefined"]
StreamNextListener(id) == [kind |-> "streamNext", id |-> id, result |-> "undefined"]

\* BeforeExitListener.reset(): the value stored in the slot
BeforeExitReset == NO_OP_LISTENER

\* BeforeExitListener.set(l): the value stored in the slot
BeforeExitSet(bun, l) == IF bun THEN NO_OP_LISTENER ELSE l

\* ------------------------------------------------------------ RAPIDClient
\* A call of postInvocationResponse / postInvocationError / postInitError:
\*   via: the code site that issued it; cb: the callback handed to the client.
Post(id, kind, result, error, via, cb) ==
    [id |-> id, kind |-> kind, result |-> result, error |-> error,
     via |-> via, cb |-> cb, st |-> "inflight", body |-> <<>>]

InFlight == {i \in 1..Len(posts) : posts[i].st = "inflight"}

\* ----------------------------------------------------- CallbackContext
\* The part of the state the completion entry points read and write.
Ctx == [listener |-> listener, finished |-> finished,
        isCompleteInvoked |-> isCompleteInvoked, posts |-> posts]

postError(s, err) ==
    [s EXCEPT !.posts = Append(@, Post(cur, "error", "none",
                                       toRapidResponse(intoError(err)),
                                       "context", "scheduleNext"))]

complete(s, result) ==
    IF s.isCompleteInvoked THEN s
    ELSE [s EXCEPT !.isCompleteInvoked = TRUE,
                   !.posts = Append(@, Post(cur, "response", result, NoError,
                                            "context", "scheduleNext"))]

\* Mutant: the raw callback completes at once, whatever the flag.
callback_neverDefers(s, err, result) ==
    LET s1 == [s EXCEPT !.listener = BeforeExitReset] IN
    IF err.tag # "null" THEN postError(s1, err) ELSE complete(s1, result)

\* Mutant: the raw callback defers a successful completion, whatever the flag.
callback_alwaysDefers(s, err, result) ==
    LET s1 == [s EXCEPT !.listener = BeforeExitReset] IN
    IF err.tag # "null" THEN postError(s1, err)
    ELSE [s1 EXCEPT !.listener = BeforeExitSet(isBun, DeferredListener(cur, result))]

callback(s, err, result) ==
    LET s1 == [s EXCEPT !.listener = BeforeExitReset] IN
    IF err.tag # "null" THEN postError(s1, err)
    ELSE IF ~waitForEmptyEventLoop THEN complete(s1, result)
    ELSE [s1 EXCEPT !.listener = BeforeExitSet(isBun, DeferredListener(cur, result))]

\* Mutant: done leaves the drain hook as it is.
done_keepsListener(s, err, result) ==
    IF err.tag # "null" THEN postError(s, err) ELSE complete(s, result)

done(s, err, result) ==
    LET s1 == [s EXCEPT !.listener = BeforeExitReset] IN
    IF err.tag # "null" THEN postError(s1, err) ELSE complete(s1, result)

\* Mutant: succeed reports no value.
succeed_dropsValue(s, result) == done(s, NullErr, "null")

succeed(s, result) == done(s, NullErr, result)

\* 'handled', the error fail() reports when called without one
Handled == [tag |-> "string", name |-> <<>>,
            message |-> <<"h", "a", "n", "d", "l", "e", "d">>, stack |-> <<>>]

\* Mutant: fail without an error completes successfully.
fail_nullSucceeds(s, err) ==
    IF err.tag = "null" THEN done(s, NullErr, "undefined") ELSE done(s, err, "null")

fail(s, err) ==
    IF err.tag = "null" THEN done(s, Handled, "undefined") ELSE done(s, err, "null")

\* The raw entry point named ep applied to its arguments.
RawCall(s, ep, err, result) ==
    CASE ep = "callback" -> callback(s, err, result)
      [] ep = "done" -> done(s, err, result)
      [] ep = "succeed" -> succeed(s, result)
      [] ep = "fail" -> fail(s, err)

\* Mutant: the wrapper lets every call through.
onlyAllowFirstCall_noGuard(s, t) == t

\* _wrappedCallbackContext.onlyAllowFirstCall: s is the state at the call, t the
\* state the wrapped function leaves when run with finished already set.
onlyAllowFirstCall(s, t) == IF ~s.finished THEN t ELSE s

WrappedCall(s, ep, err, result) ==
    onlyAllowFirstCall(s, RawCall([s EXCEPT !.finished = TRUE], ep, err, result))

\* Store a context state back into the variables.
SetCtx(t) ==
    /\ listener' = t.listener
    /\ finished' = t.finished
    /\ isCompleteInvoked' = t.isCompleteInvoked
    /\ posts' = t.posts

NoWin == [ep |-> "none", by |-> "none", err |-> NullErr, result |-> "undefined",
          flag |-> TRUE]

\* How the handler's run ended: by returning a value that is not thenable
\* ("value"), by throwing ("threw"), or by the returned promise resolving or
\* rejecting; err is the thrown or rejected value.
NoOutcome == [how |-> "none", err |-> NullErr]
Outcome(how, err) == [how |-> how, err |-> err]

\* History of the winning call: the entry point, who called it (the handler,
\* handleOnce's catch block, or the continuation of the returned promise), its
\* arguments and the flag at that moment.
RecordCall(ep, by, err, result) ==
    /\ nCalls' = nCalls + 1
    /\ win' = IF finished THEN win
              ELSE [ep |-> ep, by |-> by, err |-> err, result |-> result,
                    flag |-> waitForEmptyEventLoop]
    /\ firedSinceWin' = IF finished THEN firedSinceWin ELSE FALSE


\* ------------------------------------------------------ AwsWritableStream
NUL == "NUL"      \* the byte 0x00
QUOTE == "\""
DEFAULT_CONTENT_TYPE == "application/octet-stream"

FreshSink == [ended |-> FALSE, errored |-> FALSE, contentTypeSet |-> FALSE,
              firstWriteDone |-> FALSE, contentType |-> DEFAULT_CONTENT_TYPE,
              body |-> <<>>]

\* What the sink enqueues on its controller: the bytes of an accepted chunk, or
\* the error trailer built from a response object.
Chunk(c) == [kind |-> "chunk", c |-> c, error |-> NoError]
Trailer(e) == [kind |-> "trailer", c |-> <<>>, error |-> e]

\* Chunk arguments of write / end: type is what typeof / instanceof tell of the
\* value, data its characters (string) or bytes (Buffer, Uint8Array).
StrChunk(d) == [type |-> "string", data |-> d]
BufChunk(d) == [type |-> "Buffer", data |-> d]
U8Chunk(d) == [type |-> "Uint8Array", data |-> d]
NumChunk == [type |-> "number", data |-> <<"4", "2">>]
NoChunk == [type |-> "undefined", data |-> <<>>]

\* new TextEncoder().encode(s): UTF-8, one byte for an ASCII character, two
\* for "é"
RECURSIVE TextEncode(_)
TextEncode(s) ==
    IF s = <<>> THEN <<>>
    ELSE (IF Head(s) = "é" THEN <<"C3", "A9">> ELSE <<Head(s)>>) \o TextEncode(Tail(s))

\* The bytes write() enqueues for a chunk of an accepted type.
bufferToWrite(chunk) ==
    IF chunk.type = "string" THEN TextEncode(chunk.data) ELSE chunk.data

\* Mutant: a chunk of any type is taken as bytes.
validChunk_any(chunk) == TRUE

validChunk(chunk) == chunk.type \in {"string", "Buffer", "Uint8Array"}

\* The TypeError write() creates for a chunk of another type.
ErrChunkType == [tag |-> "error", name |-> <<"TypeError">>,
                 message |-> <<"The chunk argument must be of type string or an instance of Buffer or Uint8Array">>,
                 stack |-> <<"s">>]

writableFinished(k) == k.ended \/ k.errored

\* Mutant: the trailer replaces what was enqueued before.
SinkError_dropsBody(k, err) ==
    IF k.errored \/ k.ended THEN k
    ELSE [k EXCEPT !.errored = TRUE, !.ended = TRUE,
                   !.body = <<Trailer(toRapidResponse(err))>>]

\* AwsWritableStream.error(err)
SinkError(k, err) ==
    IF k.errored \/ k.ended THEN k
    ELSE [k EXCEPT !.errored = TRUE, !.ended = TRUE,
                   !.body = Append(@, Trailer(toRapidResponse(err)))]

\* Mutant: write enqueues on a terminal sink too.
SinkWrite_ignoresTerminal(k, chunk) ==
    IF validChunk(chunk)
    THEN [k EXCEPT !.body = Append(@, Chunk(bufferToWrite(chunk))),
                   !.firstWriteDone = TRUE]
    ELSE SinkError(k, ErrChunkType)

\* AwsWritableStream.write(chunk): the sink it leaves
SinkWrite(k, chunk) ==
    IF k.ended \/ k.errored THEN k
    ELSE IF validChunk(chunk)
    THEN [k EXCEPT !.body = Append(@, Chunk(bufferToWrite(chunk))),
                   !.firstWriteDone = TRUE]
    ELSE SinkError(k, ErrChunkType)

\* AwsWritableStream.write(chunk): the value it returns
WriteReturn(k, chunk) == ~(k.ended \/ k.errored) /\ validChunk(chunk)

\* if (chunk): undefined and the empty string are falsy
truthyChunk(chunk) ==
    chunk.type # "undefined" /\ ~(chunk.type = "string" /\ chunk.data = <<>>)

\* AwsWritableStream.end(chunk)
SinkEndChunk(k, chunk) ==
    IF k.ended \/ k.errored THEN k
    ELSE [(IF truthyChunk(chunk) THEN SinkWrite(k, chunk) ELSE k) EXCEPT !.ended = TRUE]

\* AwsWritableStream.end()
SinkEnd(k) == SinkEndChunk(k, NoChunk)

\* AwsWritableStream.setContentType throws InvalidStreamingOperation
SetContentTypeThrows(k) == k.contentTypeSet \/ k.firstWriteDone

\* Mutant: the content type can be set again.
SinkSetContentType_noGuard(k, t) == [k EXCEPT !.contentType = t, !.contentTypeSet = TRUE]

\* AwsWritableStream.setContentType(t): the sink it leaves
SinkSetContentType(k, t) ==
    IF SetContentTypeThrows(k) THEN k
    ELSE [k EXCEPT !.contentType = t, !.contentTypeSet = TRUE]

\* JSON.stringify of a string: the text between the quotes
RECURSIVE JsonChars(_)
JsonChars(s) ==
    IF s = <<>> THEN <<>>
    ELSE (CASE Head(s) = QUOTE -> <<"\\", QUOTE>>
            [] Head(s) = "\n" -> <<"\\", "n">>
            [] OTHER -> <<Head(s)>>) \o JsonChars(Tail(s))

JsonString(s) == <<QUOTE>> \o JsonChars(s) \o <<QUOTE>>

\* JSON.stringify of an array of strings
RECURSIVE JsonItems(_)
JsonItems(a) ==
    IF a = <<>> THEN <<>>
    ELSE JsonString(Head(a)) \o (IF Len(a) > 1 THEN <<",">> ELSE <<>>) \o JsonItems(Tail(a))

JsonStringArray(a) == <<"[">> \o JsonItems(a) \o <<"]">>

\* JSON.stringify({errorType, errorMessage, stackTrace}); an undefined
\* stackTrace is left out
trailerJson(e) ==
    <<"{", "\"errorType\"", ":">> \o JsonString(e.errorType)
    \o <<",", "\"errorMessage\"", ":">> \o JsonString(e.errorMessage)
    \o (IF e.hasTrace THEN <<",", "\"stackTrace\"", ":">> \o JsonStringArray(e.trace)
        ELSE <<>>)
    \o <<"}">>

TRAILER_NAME_ERROR_TYPE == "Lambda-Runtime-Function-Error-Type"
TRAILER_NAME_ERROR_BODY == "Lambda-Runtime-Function-Error-Body"
Zeros8 == <<NUL, NUL, NUL, NUL, NUL, NUL, NUL, NUL>>

\* The bytes of the in-band trailer for a response object.
trailerBytes(e) ==
    TextEncode(Zeros8 \o <<TRAILER_NAME_ERROR_TYPE, ":">> \o e.errorType \o <<"\n">>
               \o <<TRAILER_NAME_ERROR_BODY, ":">> \o trailerJson(e) \o <<"\n">>)

\* The bytes read from the sink's readable side: what was enqueued, in order.
RECURSIVE readableBytes(_)
readableBytes(body) ==
    IF body = <<>> THEN <<>>
    ELSE (IF Head(body).kind = "chunk" THEN Head(body).c ELSE trailerBytes(Head(body).error))
         \o readableBytes(Tail(body))

\* ----------------------------------- StreamingContext / HttpResponseStream
\* A header object is the sequence of its <<key, value>> entries in insertion
\* order; UNDEF is the value of a key it does not have.
UNDEF == "undefined"
Truthy(v) == v # UNDEF /\ v # ""

HasKey(m, key) == \E i \in 1..Len(m) : m[i][1] = key
Get(m, key) ==
    IF HasKey(m, key) THEN m[CHOOSE i \in 1..Len(m) : m[i][1] = key][2] ELSE UNDEF
Put(m, key, v) ==
    IF HasKey(m, key) THEN [i \in 1..Len(m) |-> IF m[i][1] = key THEN <<key, v>> ELSE m[i]]
    ELSE Append(m, <<key, v>>)
Delete(m, key) == SelectSeq(m, LAMBDA e : e[1] # key)

\* metadataOverrides: not given, or an object with an optional statusCode and
\* headers.
NoOverrides == [given |-> FALSE, statusCode |-> UNDEF, headers |-> <<>>]
WithOverrides(sc, h) == [given |-> TRUE, statusCode |-> sc, headers |-> h]

\* The prelude's content-type: the override's, else the sink's.
preludeContentType(ov, k) ==
    IF Truthy(Get(ov.headers, "content-type")) THEN Get(ov.headers, "content-type")
    ELSE IF Truthy(Get(ov.headers, "Content-Type")) THEN Get(ov.headers, "Content-Type")
    ELSE k.contentType

\* finalizeAndPostStream: finalPrelude for the overrides ov and the sink k
finalPrelude(ov, k) ==
    LET merged == Put(ov.headers, "content-type", preludeContentType(ov, k)) IN
    [statusCode |-> IF ov.statusCode # UNDEF THEN ov.statusCode ELSE "200",
     cookies |-> <<>>,
     headers |-> IF /\ Truthy(Get(ov.headers, "Content-Type"))
                    /\ Truthy(Get(merged, "content-type"))
                    /\ Get(ov.headers, "Content-Type") # Get(merged, "content-type")
                 THEN Delete(merged, "Content-Type")
                 ELSE merged]

\* JSON.stringify of the entries of a header object
RECURSIVE JsonEntries(_)
JsonEntries(m) ==
    IF m = <<>> THEN <<>>
    ELSE JsonString(<<Head(m)[1]>>) \o <<":">> \o JsonString(<<Head(m)[2]>>)
         \o (IF Len(m) > 1 THEN <<",">> ELSE <<>>) \o JsonEntries(Tail(m))

\* JSON.stringify(prelude): statusCode, cookies, headers in insertion order
metadataPrelude(prelude) ==
    <<"{", "\"statusCode\"", ":", prelude.statusCode, ",", "\"cookies\"", ":">>
    \o JsonStringArray(prelude.cookies)
    \o <<",", "\"headers\"", ":", "{">> \o JsonEntries(prelude.headers) \o <<"}", "}">>

DELIMITER_LEN == 8
delimiterBytes == [i \in 1..DELIMITER_LEN |-> NUL]

\* Mutant: the delimiter is left out.
createHttpResponseStream_noDelimiter(underlying, prelude) ==
    TextEncode(metadataPrelude(prelude)) \o underlying

\* createHttpResponseStream: the bytes of the returned readable, underlying
\* being the bytes of the piped stream
createHttpResponseStream(underlying, prelude) ==
    TextEncode(metadataPrelude(prelude)) \o delimiterBytes \o underlying

\* finalizeAndPostStream(ov) for the sink k: the prelude and the body of the
\* Response handed to postInvocationResponse
finalizeAndPostStream(k, ov) ==
    [prelude |-> finalPrelude(ov, k),
     stream |-> createHttpResponseStream(readableBytes(k.body), finalPrelude(ov, k))]

\* ------------------------------------------------------- InvokeContext
\* A header key is its lower-case spelling together with the letter case it is
\* written in; toLowerCase keeps the spelling and drops the case.
Key(name, case) == [name |-> name, case |-> case]
toLowerCase(key) == Key(key.name, "lower")

INVOKE_HEADER ==
    [ClientContext |-> Key("lambda-runtime-client-context", "lower"),
     CognitoIdentity |-> Key("lambda-runtime-cognito-identity", "lower"),
     ARN |-> Key("lambda-runtime-invoked-function-arn", "lower"),
     AWSRequestId |-> Key("lambda-runtime-aws-request-id", "lower"),
     DeadlineMs |-> Key("lambda-runtime-deadline-ms", "lower"),
     TenantId |-> Key("lambda-runtime-aws-tenant-id", "lower")]

\* Mutant: the keys are kept as they were given.
_enforceLowercaseKeys_keepsCase(original) == original

\* InvokeContext._enforceLowercaseKeys: reduce over the keys in order
RECURSIVE _enforceLowercaseKeys(_)
_enforceLowercaseKeys(original) ==
    IF original = <<>> THEN <<>>
    ELSE LET last == original[Len(original)] IN
         Put(_enforceLowercaseKeys(SubSeq(original, 1, Len(original) - 1)),
             toLowerCase(last[1]), last[2])

\* Header values: "1" is a decimal number and valid JSON, "{" is neither, " "
\* is blank.
validJson(v) == v = "1"

\* Number.parseInt(v, 10), as text
parseInt(v) == IF v \in {"0", "1"} THEN v ELSE "NaN"

\* String.prototype.trim() === ''
isBlank(v) == v \in {"", " "}

\* InvokeContext._parseJson: undefined, the parsed value, or the message of the
\* Error it throws
_parseJson(jsonString, name) ==
    IF jsonString = UNDEF THEN <<UNDEF>>
    ELSE IF validJson(jsonString) THEN <<"json", jsonString>>
    ELSE <<"throws", "Cannot parse", name, "as json">>

MissingId == "throws: invocation id is missing or invalid"

\* The invokeId and tenantId getters and _headerData over the stored headers.
headerData(headers) ==
    [invokeId |-> IF Truthy(Get(headers, INVOKE_HEADER.AWSRequestId))
                  THEN Get(headers, INVOKE_HEADER.AWSRequestId)
                  ELSE MissingId,
     tenantId |-> Get(headers, INVOKE_HEADER.TenantId),
     deadline |-> IF Truthy(Get(headers, INVOKE_HEADER.DeadlineMs))
                  THEN parseInt(Get(headers, INVOKE_HEADER.DeadlineMs))
                  ELSE "now+3000",
     invokedFunctionArn |-> Get(headers, INVOKE_HEADER.ARN),
     clientContext |-> _parseJson(IF isBlank(Get(headers, INVOKE_HEADER.ClientContext))
                                  THEN UNDEF
                                  ELSE Get(headers, INVOKE_HEADER.ClientContext),
                                  "ClientContext"),
     identity |-> _parseJson(IF isBlank(Get(headers, INVOKE_HEADER.CognitoIdentity))
                             THEN UNDEF
                             ELSE Get(headers, INVOKE_HEADER.CognitoIdentity),
                             "CognitoIdentity")]

\* new InvokeContext(headers) and the metadata read from it
InvokeContext(headers) == headerData(_enforceLowercaseKeys(headers))

\* Mutant: the invokeId getter returns whatever the header holds.
invokeIdThrows_never(md) == FALSE

\* The invokeId getter's assert.ok(id) fails, so updateLoggingContext throws.
invokeIdThrows(md) == md.invokeId = MissingId

\* attachEnvironmentData throws: _parseJson rejected a header
attachThrows(md) == md.clientContext[1] = "throws" \/ md.identity[1] = "throws"

\* The Error _parseJson throws for the field it rejects.
ErrParseJson(md) ==
    [tag |-> "error", name |-> ErrorName,
     message |-> IF md.clientContext[1] = "throws" THEN Tail(md.clientContext)
                 ELSE Tail(md.identity),
     stack |-> <<"s">>]

\* BunRapidClient.nextInvocation: a JSON-bearing header that is present is
\* parsed, a parse failure is logged and the field left undefined.
bunParseHeader(h) == IF Truthy(h) /\ validJson(h) THEN <<"json", h>> ELSE <<UNDEF>>

\* RAPIDClient.nextInvocation: a field that was parsed is serialized again
\* with JSON.stringify.
rapidHeader(parsed) == IF parsed = <<UNDEF>> THEN UNDEF ELSE parsed[2]

\* response.headers.get(name) || dflt
orElse(v, dflt) == IF Truthy(v) THEN v ELSE dflt

\* The headers object RAPIDClient.nextInvocation hands to the Runtime from the
\* fields BunRapidClient.nextInvocation read: raw.id, raw.deadline, raw.tenant,
\* raw.cc and raw.ci are the request-id, deadline-ms, tenant-id, client-context
\* and cognito-identity headers of the control plane's response.
nextInvocationHeaders(raw) ==
    <<<<INVOKE_HEADER.AWSRequestId, orElse(raw.id, "")>>,
      <<INVOKE_HEADER.DeadlineMs, parseInt(orElse(raw.deadline, "0"))>>,
      <<INVOKE_HEADER.ARN, "1">>,
      <<INVOKE_HEADER.ClientContext, rapidHeader(bunParseHeader(raw.cc))>>,
      <<INVOKE_HEADER.CognitoIdentity, rapidHeader(bunParseHeader(raw.ci))>>,
      <<Key("content-type", "lower"), "application/json">>>>

\* The response headers of GET invocation/next the client looks at.
Response(id, deadline, tenant, cc, ci) ==
    [id |-> id, deadline |-> deadline, tenant |-> tenant, cc |-> cc, ci |-> ci]

\* A response with a request id and a deadline, and no tenant id.
RawHeaders(cc, ci) == Response("1", "1", UNDEF, cc, ci)

\* Errors the runtime itself creates.
ErrNotPromise == [tag |-> "error", name |-> ErrorName,
                  message |-> <<"Streaming handler must return a Promise.">>, stack |-> <<"s">>]
ErrNotEnded == [tag |-> "error", name |-> ErrorName,
                message |-> <<"Response stream was not explicitly ended by the handler">>, stack |-> <<"s">>]
ErrTransport == [tag |-> "error", name |-> ErrorName,
                 message |-> <<"Failed to get next invocation">>, stack |-> <<"s">>]
ErrMissingId == [tag |-> "error", name |-> <<"AssertionError">>,
                 message |-> <<"invocation id is missing or invalid">>, stack |-> <<"s">>]
ErrRejection == [tag |-> "error", name |-> <<"Runtime.UnhandledPromiseRejection">>,
                 message |-> <<"r">>, stack |-> <<"s">>]

\* ------------------------------------------------------------ event loop
Alive == exitCode = -1

IterTask == [kind |-> "iter", result |-> "undefined"]
SchedTask == [kind |-> "schedIter", result |-> "undefined"]
CompleteTask(r) == [kind |-> "complete", result |-> r]

\* Nothing the runtime scheduled is pending and no code is running.
Idle == /\ immediates = <<>> /\ polls = 0 /\ InFlight = {}
        /\ hphase \notin {"loading", "sync"}

\* Mutant: the iteration is scheduled twice.
scheduleIteration_twice(q) == Append(Append(q, IterTask), IterTask)

\* Runtime.scheduleIteration: the queue after setImmediate(handleOnce)
scheduleIteration(q) == Append(q, IterTask)

\* Mutant: the error callbacks go on with the loop once the report has ended.
FatalPost_schedulesNext(err, code) ==
    Post(errorCb, IF errorCb = 0 THEN "initError" ELSE "error", "none",
         toRapidResponse(err), "fatal", "scheduleNext")

\* errorCallbacks.uncaughtException / unhandledRejection as bound at the moment:
\* index.ts before the first invocation, Runtime._setErrorCallbacks afterwards.
FatalPost(err, code) ==
    IF errorCb = 0
    THEN Post(0, "initError", "none", toRapidResponse(err), "fatal", code)
    ELSE Post(errorCb, "error", "none", toRapidResponse(err), "fatal", code)

histvars == <<nCalls, win, firedSinceWin>>
budgets == <<nFatal, nWrites, totalCalls>>
ctxvars == <<finished, isCompleteInvoked>>

\* Values of the variables of the isolated components while they are not used.
NoOp == [op |-> "none", chunk |-> NoChunk, err |-> NullErr, ctype |-> "",
         ret |-> "none", before |-> FreshSink]
NotPosted == [prelude |-> [statusCode |-> UNDEF, cookies |-> <<>>, headers |-> <<>>],
              stream |-> <<>>, ov |-> NoOverrides]
NoMeta == [invokeId |-> UNDEF, tenantId |-> UNDEF, deadline |-> UNDEF,
           invokedFunctionArn |-> UNDEF, clientContext |-> <<UNDEF>>,
           identity |-> <<UNDEF>>]

\* CircuitBreakerConfig of the breaker taken in isolation.
config == [failureThreshold |-> 2, recoveryTimeout |-> 2, successThreshold |-> 2,
           monitoringWindow |-> 3, volumeThreshold |-> 2]

\* new CircuitBreaker(name, config)
NewBreaker ==
    [state |-> "CLOSED", failureCount |-> 0, successCount |-> 0,
     lastFailureTime |-> 0, lastSuccessTime |-> 0, nextAttemptTime |-> 0,
     recentRequests |-> <<>>,
     stats |-> [totalRequests |-> 0, rejectedRequests |-> 0, stateTransitions |-> 0]]

\* No execute so far.  Of an execute: its number, the time of the call, the
\* breaker before it and as it left it when it rejected or called fn, and
\* whether it called fn.
NoExec == [n |-> 0, at |-> 0, before |-> NewBreaker, after |-> NewBreaker,
           invoked |-> FALSE]

\* ErrorType, for the errors fn is taken to throw
ErrorTypes == {"TRANSIENT", "PERMANENT", "RATE_LIMIT", "UNKNOWN"}

\* new ErrorRecoverySystem(), no run of executeWithRecovery so far.  Of a run:
\* its strategy, the loop variable, the calls of fn made, the last error and
\* the RecoveryResult returned.
NoRun ==
    [phase |-> "idle", runs |-> 0, maxRetries |-> 0, attemptCount |-> 0, invoked |-> 0,
     lastError |-> "none",
     result |-> [success |-> FALSE, attemptCount |-> 0],
     stats |-> [totalAttempts |-> 0, successfulRecoveries |-> 0, permanentFailures |-> 0,
                errorsByType |-> [t \in ErrorTypes |-> 0]]]

ExtIdle ==
    /\ clock = 0
    /\ builtAt = 0
    /\ remaining = <<>>
    /\ clientCalls = <<>>
    /\ breaker = NewBreaker
    /\ pending = <<>>
    /\ lastExec = NoExec
    /\ recovery = NoRun

UnitIdle ==
    /\ lastOp = NoOp
    /\ accepted = <<>>
    /\ posted = NotPosted
    /\ nOps = 0
    /\ val = NullErr
    /\ resp = NoError
    /\ hdrs = <<>>
    /\ meta = NoMeta
    /\ ExtIdle

\* ---------------------------------------------------------------- Init
\* The state inside run() of index.ts once the process listeners are installed
\* and the drain hook is reset, while the handler is being loaded.
Init ==
    /\ isBun \in BOOLEAN
    /\ streaming \in BOOLEAN
    /\ exitCode = -1
    /\ listener = NO_OP_LISTENER
    /\ errorCb = 0
    /\ immediates = <<>>
    /\ polls = 0
    /\ served = 0
    /\ cur = 0
    /\ hphase = "loading"
    /\ finished = FALSE
    /\ isCompleteInvoked = FALSE
    /\ waitForEmptyEventLoop = TRUE
    /\ sink = FreshSink
    /\ posts = <<>>
    /\ nCalls = 0
    /\ win = NoWin
    /\ firedSinceWin = FALSE
    /\ outcome = NoOutcome
    /\ nFatal = 0
    /\ nWrites = 0
    /\ totalCalls = 0
    /\ rawHeaders = RawHeaders(UNDEF, UNDEF)
    /\ contextData = NoMeta
    /\ UnitIdle

\* ------------------------------------------------------------- actions
\* run(): UserFunction.load and getHandlerMetadata end.  ok: the Runtime is
\* built and the first iteration scheduled.  ~ok: load rejects or the metadata
\* is invalid, run() rejects and the bootstrap's catch ends the process.
LoadHandler(ok) ==
    /\ Alive /\ hphase = "loading"
    /\ IF ok
       THEN /\ hphase' = "none"
            /\ immediates' = scheduleIteration(immediates)
            /\ UNCHANGED exitCode
       ELSE /\ exitCode' = 1
            /\ UNCHANGED <<hphase, immediates>>
    /\ UNCHANGED <<unitvars, rawHeaders, contextData, isBun, streaming, listener, errorCb, polls, served, cur, ctxvars,
                   waitForEmptyEventLoop, sink, posts, histvars, outcome, budgets>>

\* The event loop runs the oldest setImmediate callback.
RunImmediate ==
    /\ Alive /\ hphase # "sync" /\ immediates # <<>>
    /\ LET t == Head(immediates) IN
       CASE t.kind = "iter" ->
              \* scheduleIteration's callback: handleOnce() awaits nextInvocation
              /\ polls' = polls + 1
              /\ immediates' = Tail(immediates)
              /\ UNCHANGED <<listener, ctxvars, posts>>
         [] t.kind = "schedIter" ->
              \* StreamingContext.scheduleNextWithReset's deferred callback
              /\ immediates' = scheduleIteration(Tail(immediates))
              /\ UNCHANGED <<polls, listener, ctxvars, posts>>
         [] t.kind = "complete" ->
              \* CallbackContext.callback's deferred complete(result, scheduleNext)
              /\ SetCtx(complete(Ctx, t.result))
              /\ immediates' = Tail(immediates)
              /\ UNCHANGED polls
    /\ UNCHANGED <<unitvars, rawHeaders, contextData, isBun, streaming, exitCode, errorCb, served, cur, hphase,
                   waitForEmptyEventLoop, sink, histvars, budgets, outcome>>

\* The control plane hands out one invocation at a time: the next one only
\* after it has seen the end of a report call for the previous one.
Reported(id) == id = 0 \/ \E i \in 1..Len(posts) : posts[i].id = id /\ posts[i].st # "inflight"

\* The log keeps the calls that concern the current invocation: when the next
\* one is dispatched, the settled calls of the previous one are dropped.
StillInFlight(ps) == SelectSeq(ps, LAMBDA p : p.st = "inflight")

\* nextInvocation resolves and handleOnce builds the InvokeContext.  When
\* updateLoggingContext throws, handleOnce rejects before anything else is set
\* up and scheduleIteration's rejection handler calls
\* errorCallbacks.uncaughtException; otherwise handleOnce installs the error
\* callbacks and the exit listener and enters the handler.
PollDeliver(raw) ==
    /\ Alive /\ hphase # "sync" /\ polls > 0 /\ served < MaxInv /\ Reported(cur)
    /\ rawHeaders' = raw
    /\ contextData' = InvokeContext(nextInvocationHeaders(raw))
    /\ polls' = polls - 1
    /\ IF invokeIdThrows(InvokeContext(nextInvocationHeaders(raw)))
       THEN /\ posts' = Append(posts, FatalPost(ErrMissingId, "exit129"))
            /\ UNCHANGED <<served, cur, errorCb, ctxvars, waitForEmptyEventLoop, sink,
                           listener, hphase, histvars, outcome>>
       ELSE /\ served' = served + 1
            /\ cur' = served + 1
            /\ errorCb' = served + 1
            /\ finished' = FALSE
            /\ isCompleteInvoked' = FALSE
            /\ waitForEmptyEventLoop' = TRUE
            /\ sink' = FreshSink
            /\ listener' = BeforeExitSet(isBun, IF streaming THEN StreamExitListener(served + 1)
                                                ELSE DefaultListener(served + 1))
            /\ hphase' = "sync"
            /\ nCalls' = 0 /\ win' = NoWin /\ firedSinceWin' = FALSE
            /\ outcome' = NoOutcome
            /\ posts' = StillInFlight(posts)
    /\ UNCHANGED <<unitvars, isBun, streaming, exitCode, immediates, budgets>>

\* nextInvocation fails: handleOnce rejects and scheduleIteration's rejection
\* handler calls errorCallbacks.uncaughtException.
PollFail ==
    /\ Alive /\ hphase # "sync" /\ polls > 0
    /\ polls' = polls - 1
    /\ posts' = Append(posts, FatalPost(ErrTransport, "exit129"))
    /\ UNCHANGED <<unitvars, rawHeaders, contextData, isBun, streaming, exitCode, listener, errorCb, immediates, served,
                   cur, hphase, ctxvars, waitForEmptyEventLoop, sink, histvars,
                   budgets, outcome>>

\* The headers the control plane sends with an invocation: the client-context
\* and cognito-identity headers both valid JSON, or both not, or a response
\* without a request id.
DeliveredHeaders == {RawHeaders("1", "1"), RawHeaders("{", "{"),
                     Response(UNDEF, "1", UNDEF, "1", "1")}

\* attachEnvironmentData returns, so the handler is entered.
Attached == ~attachThrows(contextData)

HandlerActive ==
    /\ Alive /\ cur > 0 /\ hphase \in {"sync", "returned", "pending", "settled"}
    /\ Attached

\* The handler assigns context.callbackWaitsForEmptyEventLoop.
HandlerSetFlag(b) ==
    /\ HandlerActive /\ b # waitForEmptyEventLoop
    /\ ~finished      \* never read again once a completion call has won
    /\ waitForEmptyEventLoop' = b
    /\ UNCHANGED <<unitvars, rawHeaders, contextData, isBun, streaming, exitCode, listener, errorCb, immediates, polls,
                   served, cur, hphase, ctxvars, sink, posts, histvars, budgets, outcome>>

\* The argument lists the handler uses for the entry point ep.
CallArgs(ep) ==
    CASE ep = "succeed" -> {<<NullErr, r>> : r \in Results}
      [] ep = "fail" -> {<<e, "undefined">> : e \in ErrArgs}
      [] OTHER -> {<<NullErr, r>> : r \in Results} \cup {<<e, "undefined">> : e \in Errs}

\* The handler calls succeed / fail / done / the raw callback (buffered mode).
HandlerCall(ep, err, result) ==
    /\ HandlerActive /\ ~streaming /\ totalCalls < MaxCalls
    /\ totalCalls' = totalCalls + 1
    /\ SetCtx(WrappedCall(Ctx, ep, err, result))
    /\ RecordCall(ep, "handler", err, result)
    /\ UNCHANGED <<unitvars, rawHeaders, contextData, isBun, streaming, exitCode, errorCb, immediates, polls, served, cur,
                   hphase, waitForEmptyEventLoop, sink, nFatal, nWrites, outcome>>


\* StreamingContext.finalizeAndPostStream with no overrides: the posted Response
\* carries the prelude and what the sink emitted.
StreamPost(k) ==
    [id |-> cur, kind |-> "response", result |-> "stream", error |-> NoError,
     via |-> "stream", cb |-> "streamDone", st |-> "inflight", body |-> k.body]

\* Mutant: a sink the handler left open is posted as it is.
ForceEnd_noForce(k) == k

\* The tail of handleOnceStreaming once the handler's result is known: force
\* an error onto a sink that is not finished, then finalize and post.
ForceEnd(k) == IF ~writableFinished(k) THEN SinkError(k, ErrNotEnded) ELSE k

\* The handler's synchronous run ends by returning; isPromise tells whether the
\* returned value is thenable.
HandlerReturn(isPromise) ==
    /\ Alive /\ hphase = "sync" /\ Attached
    /\ IF ~streaming
       THEN /\ hphase' = IF isPromise THEN "pending" ELSE "returned"
            /\ UNCHANGED <<sink, posts>>
       ELSE IF isPromise
       THEN /\ hphase' = "pending"
            /\ UNCHANGED <<sink, posts>>
       ELSE LET k == ForceEnd(SinkError(sink, ErrNotPromise)) IN
            /\ sink' = k
            /\ posts' = Append(posts, StreamPost(k))
            /\ hphase' = "posting"
    /\ outcome' = IF isPromise THEN outcome ELSE Outcome("value", NullErr)
    /\ UNCHANGED <<unitvars, rawHeaders, contextData, isBun, streaming, exitCode, listener, errorCb, immediates, polls,
                   served, cur, ctxvars, waitForEmptyEventLoop, histvars, budgets>>

\* handleOnce's try block ends by throwing e: the handler's synchronous run
\* throws, or attachEnvironmentData does before the handler is entered.
HandlerThrow(e) ==
    /\ Alive /\ hphase = "sync"
    /\ IF Attached THEN e \in {ErrRange, ErrDel} ELSE e \in {ErrParseJson(contextData)}
    /\ IF ~streaming
       THEN \* catch (err) { callback(err) }
            /\ SetCtx(WrappedCall(Ctx, "callback", e, "undefined"))
            /\ RecordCall("callback", "catch", e, "undefined")
            /\ hphase' = "returned"
       ELSE \* catch (err) { this.errorCallbacks.uncaughtException(err) }
            /\ posts' = Append(posts, FatalPost(e, "exit129"))
            /\ hphase' = "failed"
            /\ UNCHANGED <<listener, ctxvars, histvars>>
    /\ outcome' = Outcome("threw", e)
    /\ UNCHANGED <<unitvars, rawHeaders, contextData, isBun, streaming, exitCode, errorCb, immediates, polls, served, cur,
                   waitForEmptyEventLoop, sink, budgets>>

\* The promise returned by the handler settles and its continuation runs:
\* buffered: result.then(callbackContext.succeed, callbackContext.fail)
\* streaming: await handlerResult inside try/catch, then finalize.
PromiseSettle(ok, err, result) ==
    /\ Alive /\ hphase = "pending"
    /\ IF ~streaming
       THEN /\ SetCtx(WrappedCall(Ctx, IF ok THEN "succeed" ELSE "fail", err, result))
            /\ RecordCall(IF ok THEN "succeed" ELSE "fail", "then", err, result)
            /\ hphase' = "settled"
            /\ UNCHANGED sink
       ELSE LET k == ForceEnd(IF ok THEN sink ELSE SinkError(sink, err)) IN
            /\ sink' = k
            /\ posts' = Append(posts, StreamPost(k))
            /\ hphase' = "posting"
            /\ UNCHANGED <<listener, ctxvars, histvars>>
    /\ outcome' = Outcome(IF ok THEN "resolved" ELSE "rejected", err)
    /\ UNCHANGED <<unitvars, rawHeaders, contextData, isBun, streaming, exitCode, errorCb, immediates, polls, served, cur,
                   waitForEmptyEventLoop, budgets>>

\* The streaming handler uses the sink: op is "write", "end" or "error".
HandlerSink(op) ==
    /\ Alive /\ streaming /\ cur > 0 /\ hphase \in {"sync", "pending"} /\ Attached
    /\ nWrites < MaxWrites
    /\ nWrites' = nWrites + 1
    /\ sink' = CASE op = "write" -> SinkWrite(sink, StrChunk(<<"c", "1">>))
                 [] op = "end" -> SinkEnd(sink)
                 [] op = "error" -> SinkError(sink, ErrRange)
    /\ UNCHANGED <<unitvars, rawHeaders, contextData, isBun, streaming, exitCode, listener, errorCb, immediates, polls,
                   served, cur, hphase, ctxvars, waitForEmptyEventLoop, posts, histvars,
                   nFatal, totalCalls, outcome>>

\* StreamingContext.scheduleNextWithReset: the slot and the queue it leaves
scheduleNextWithReset ==
    IF ~waitForEmptyEventLoop
    THEN /\ listener' = BeforeExitReset
         /\ immediates' = scheduleIteration(immediates)
    ELSE /\ listener' = BeforeExitSet(isBun, StreamNextListener(cur))
         /\ UNCHANGED immediates

\* The HTTP call of post i ends (ok: 2xx; ~ok: non-2xx or transport error) and
\* RAPIDClient runs the callback it was given, once.
PostSettle(i, ok) ==
    /\ Alive /\ hphase # "sync" /\ i \in InFlight
    /\ posts' = [posts EXCEPT ![i].st = IF ok THEN "ok" ELSE "failed"]
    /\ CASE posts[i].cb = "scheduleNext" ->
              /\ immediates' = scheduleIteration(immediates)
              /\ UNCHANGED <<exitCode, listener, hphase>>
         [] posts[i].cb = "exit129" ->
              /\ exitCode' = 129
              /\ UNCHANGED <<immediates, listener, hphase>>
         [] posts[i].cb = "exit128" ->
              /\ exitCode' = 128
              /\ UNCHANGED <<immediates, listener, hphase>>
         [] posts[i].cb = "streamDone" ->
              \* finalizeAndPostStream resolves; handleOnceStreaming calls scheduleNext()
              /\ scheduleNextWithReset
              /\ hphase' = "done"
              /\ UNCHANGED exitCode
    /\ UNCHANGED <<unitvars, rawHeaders, contextData, isBun, streaming, errorCb, polls, served, cur, ctxvars,
                   waitForEmptyEventLoop, sink, histvars, budgets, outcome>>

\* process 'beforeExit': BeforeExitListener.invoke() runs the listener in the slot.
DrainFire ==
    /\ Alive /\ Idle
    /\ CASE listener.kind = "noop" ->
              \* nothing is scheduled: the process ends
              /\ exitCode' = 0
              /\ UNCHANGED <<immediates, isCompleteInvoked, posts, firedSinceWin>>
         [] listener.kind = "default" ->
              \* Runtime._setDefaultExitListener
              /\ isCompleteInvoked' = TRUE
              /\ posts' = Append(posts, Post(listener.id, "response", "null", NoError,
                                             "drain", "scheduleNext"))
              /\ UNCHANGED <<exitCode, immediates, firedSinceWin>>
         [] listener.kind = "deferred" ->
              \* CallbackContext.callback: setImmediate(() => complete(result, scheduleNext))
              /\ immediates' = Append(immediates, CompleteTask(listener.result))
              /\ firedSinceWin' = TRUE
              /\ UNCHANGED <<exitCode, isCompleteInvoked, posts>>
         [] listener.kind = "streamExit" ->
              \* Runtime._setStreamingExitListener: the sink has no destroy
              /\ immediates' = scheduleIteration(immediates)
              /\ UNCHANGED <<exitCode, isCompleteInvoked, posts, firedSinceWin>>
         [] listener.kind = "streamNext" ->
              /\ immediates' = Append(immediates, SchedTask)
              /\ UNCHANGED <<exitCode, isCompleteInvoked, posts, firedSinceWin>>
    /\ UNCHANGED <<unitvars, rawHeaders, contextData, isBun, streaming, listener, errorCb, polls, served, cur, hphase,
                   finished, waitForEmptyEventLoop, sink, nCalls, win, budgets, outcome>>

\* process 'uncaughtException' (rejection = FALSE) or 'unhandledRejection'.
FatalEvent(rejection) ==
    /\ Alive /\ hphase # "sync" /\ nFatal < MaxFatal
    /\ nFatal' = nFatal + 1
    /\ posts' = Append(posts, IF rejection THEN FatalPost(ErrRejection, "exit128")
                              ELSE FatalPost(ErrRange, "exit129"))
    /\ UNCHANGED <<unitvars, rawHeaders, contextData, isBun, streaming, exitCode, listener, errorCb, immediates, polls,
                   served, cur, hphase, ctxvars, waitForEmptyEventLoop, sink, histvars,
                   nWrites, totalCalls, outcome>>

Next ==
    \/ \E ok \in BOOLEAN : LoadHandler(ok)
    \/ RunImmediate
    \/ \E raw \in DeliveredHeaders : PollDeliver(raw)
    \/ PollFail
    \/ \E b \in BOOLEAN : HandlerSetFlag(b)
    \/ \E ep \in {"callback", "done", "succeed", "fail"} :
          \E a \in CallArgs(ep) : HandlerCall(ep, a[1], a[2])
    \/ \E p \in BOOLEAN : HandlerReturn(p)
    \/ \E e \in {ErrRange, ErrDel, ErrParseJson(contextData)} : HandlerThrow(e)
    \/ \E r \in Results : PromiseSettle(TRUE, NullErr, r)
    \/ \E e \in {NullErr, ErrRange} : PromiseSettle(FALSE, e, "undefined")
    \/ \E op \in {"write", "end", "error"} : HandlerSink(op)
    \/ \E i \in 1..Len(posts) : \E ok \in BOOLEAN : PostSettle(i, ok)
    \/ DrainFire
    \/ \E r \in BOOLEAN : FatalEvent(r)

Spec == Init /\ [][Next]_vars


\* ------------------------------------------------- the sink in isolation
\* A streaming handler's use of one sink, then finalizeAndPostStream; the rest
\* of the runtime stands still.
loopvars == <<isBun, streaming, exitCode, listener, errorCb, immediates, polls, served,
              cur, hphase, finished, isCompleteInvoked, waitForEmptyEventLoop, posts,
              nCalls, win, firedSinceWin, outcome, nFatal, nWrites, totalCalls>>

mainvars == <<loopvars, rawHeaders, contextData>>

LoopStill ==
    /\ isBun = TRUE /\ streaming = TRUE /\ exitCode = -1
    /\ listener = NO_OP_LISTENER /\ errorCb = 0 /\ immediates = <<>> /\ polls = 0
    /\ served = 0 /\ cur = 0 /\ hphase = "none"
    /\ finished = FALSE /\ isCompleteInvoked = FALSE /\ waitForEmptyEventLoop = TRUE
    /\ posts = <<>> /\ nCalls = 0 /\ win = NoWin /\ firedSinceWin = FALSE
    /\ outcome = NoOutcome /\ nFatal = 0 /\ nWrites = 0 /\ totalCalls = 0

MainStill ==
    /\ LoopStill
    /\ rawHeaders = RawHeaders(UNDEF, UNDEF) /\ contextData = NoMeta

\* A value whose accessors throw.
Hostile == [tag |-> "hostile", name |-> <<>>, message |-> <<>>, stack |-> <<>>]

\* Arguments the handler passes.
WriteChunks == {StrChunk(<<"h", "i">>), StrChunk(<<"é">>), U8Chunk(<<"01">>),
                BufChunk(<<"02">>), NumChunk}
EndChunks == {NoChunk, StrChunk(<<>>), StrChunk(<<"h", "i">>), NumChunk}
SinkErrs == {ErrRange, StrErr, Hostile}
ContentTypes == {"text/plain", "text/html"}
OverrideHeaders ==
    {<<>>,
     <<<<"content-type", "a/b">>>>,
     <<<<"Content-Type", "a/b">>>>,
     <<<<"content-type", "a/b">>, <<"Content-Type", "c/d">>>>,
     <<<<"Content-Type", "c/d">>, <<"content-type", "a/b">>>>,
     <<<<"x-h", "v">>>>}
OverrideSet ==
    {NoOverrides} \cup {WithOverrides(sc, h) : sc \in {UNDEF, "404"}, h \in OverrideHeaders}

Op(op, chunk, err, ctype, ret) ==
    [op |-> op, chunk |-> chunk, err |-> err, ctype |-> ctype, ret |-> ret,
     before |-> sink]

SinkInit ==
    /\ MainStill
    /\ sink = FreshSink
    /\ UnitIdle

CanCall == nOps < MaxOps /\ posted = NotPosted

\* responseStream.write(chunk)
Write(chunk) ==
    /\ CanCall
    /\ nOps' = nOps + 1
    /\ sink' = SinkWrite(sink, chunk)
    /\ lastOp' = Op("write", chunk, NullErr, "",
                    IF WriteReturn(sink, chunk) THEN "true" ELSE "false")
    /\ accepted' = IF WriteReturn(sink, chunk) THEN accepted \o bufferToWrite(chunk)
                   ELSE accepted
    /\ UNCHANGED <<mainvars, extvars, posted, val, resp, hdrs, meta>>

\* responseStream.end(chunk)
End(chunk) ==
    /\ CanCall
    /\ nOps' = nOps + 1
    /\ sink' = SinkEndChunk(sink, chunk)
    /\ lastOp' = Op("end", chunk, NullErr, "", "this")
    /\ accepted' = IF truthyChunk(chunk) /\ WriteReturn(sink, chunk)
                   THEN accepted \o bufferToWrite(chunk)
                   ELSE accepted
    /\ UNCHANGED <<mainvars, extvars, posted, val, resp, hdrs, meta>>

\* responseStream.error(e)
SignalError(e) ==
    /\ CanCall
    /\ nOps' = nOps + 1
    /\ sink' = SinkError(sink, e)
    /\ lastOp' = Op("error", NoChunk, e, "", "void")
    /\ UNCHANGED <<mainvars, extvars, accepted, posted, val, resp, hdrs, meta>>

\* responseStream.setContentType(t)
SetContentType(t) ==
    /\ CanCall
    /\ nOps' = nOps + 1
    /\ sink' = SinkSetContentType(sink, t)
    /\ lastOp' = Op("setContentType", NoChunk, NullErr, t,
                    IF SetContentTypeThrows(sink) THEN "throws" ELSE "void")
    /\ UNCHANGED <<mainvars, extvars, accepted, posted, val, resp, hdrs, meta>>

\* finalizeAndPostStream(ov), called once the sink is finished
Finalize(ov) ==
    /\ posted = NotPosted /\ writableFinished(sink)
    /\ posted' = [prelude |-> finalizeAndPostStream(sink, ov).prelude,
                  stream |-> finalizeAndPostStream(sink, ov).stream, ov |-> ov]
    /\ UNCHANGED <<mainvars, extvars, sink, lastOp, accepted, nOps, val, resp, hdrs, meta>>

SinkNext ==
    \/ \E c \in WriteChunks : Write(c)
    \/ \E c \in EndChunks : End(c)
    \/ \E e \in SinkErrs : SignalError(e)
    \/ \E t \in ContentTypes : SetContentType(t)
    \/ \E ov \in OverrideSet : Finalize(ov)

SinkSpec == SinkInit /\ [][SinkNext]_vars

\* ---------------------------------------- toRapidResponse in isolation
Names == {<<>>, <<"R">>, <<"R", DEL>>}
Messages == {<<>>, <<"b">>, <<DEL, "b">>, <<QUOTE>>}
Stacks == {<<>>, <<"s">>, <<"a", "\n", "b", DEL>>}

\* Values handed to toRapidResponse: Error objects, objects with name, message
\* and stack properties, strings, undefined, and a hostile object.
Values ==
    {[tag |-> t, name |-> n, message |-> m, stack |-> st] :
        t \in {"error", "errorlike"}, n \in Names, m \in Messages, st \in Stacks}
    \cup {[tag |-> "string", name |-> <<>>, message |-> m, stack |-> <<>>] : m \in Messages}
    \cup {NullErr, Hostile}

ErrorsInit ==
    /\ MainStill
    /\ sink = FreshSink
    /\ lastOp = NoOp /\ accepted = <<>> /\ posted = NotPosted /\ nOps = 0
    /\ val \in Values
    /\ resp = NoError
    /\ hdrs = <<>> /\ meta = NoMeta
    /\ ExtIdle

\* toRapidResponse(val)
Convert ==
    /\ resp = NoError
    /\ resp' = toRapidResponse(val)
    /\ UNCHANGED <<mainvars, extvars, sink, lastOp, accepted, posted, nOps, val, hdrs, meta>>

ErrorsNext == Convert

ErrorsSpec == ErrorsInit /\ [][ErrorsNext]_vars

\* ------------------------------------------ InvokeContext in isolation
Cases == {"lower", "Title"}
HeaderNames == {INVOKE_HEADER[f].name : f \in DOMAIN INVOKE_HEADER}
HeaderValues == {"", "1", "{"}
HeaderEntries == {<<Key(n, c), v>> : n \in HeaderNames, c \in Cases, v \in HeaderValues}

\* Header objects: up to MaxHeaders entries with distinct keys, in insertion order.
RECURSIVE HeaderObjects(_)
HeaderObjects(n) ==
    IF n = 0 THEN {<<>>}
    ELSE HeaderObjects(n - 1)
         \cup {Append(h, e) : h \in {g \in HeaderObjects(n - 1) : Len(g) = n - 1},
                              e \in HeaderEntries}

DistinctKeys(h) == \A i, j \in 1..Len(h) : h[i][1] = h[j][1] => i = j

HeadersInit ==
    /\ MainStill
    /\ sink = FreshSink
    /\ lastOp = NoOp /\ accepted = <<>> /\ posted = NotPosted /\ nOps = 0
    /\ val = NullErr /\ resp = NoError
    /\ hdrs \in {h \in HeaderObjects(MaxHeaders) : DistinctKeys(h)}
    /\ meta = NoMeta
    /\ ExtIdle

\* new InvokeContext(hdrs), then its getters and _headerData
NewInvokeContext ==
    /\ meta = NoMeta
    /\ meta' = InvokeContext(hdrs)
    /\ UNCHANGED <<mainvars, extvars, sink, lastOp, accepted, posted, nOps, val, resp, hdrs>>

HeadersNext == NewInvokeContext

HeadersSpec == HeadersInit /\ [][HeadersNext]_vars

\* ------------------------------- the delivery of one invocation in isolation
\* One response of GET invocation/next goes through BunRapidClient,
\* RAPIDClient and InvokeContext; the handler then reads the remaining time
\* from the context it was given while the clock advances.
DEFAULT_DEADLINE_MS == 3000

\* The number a decimal text denotes.
Num(t) == IF t = "0" THEN 0 ELSE 1

\* getRemainingTimeInMillis of the context built at time built, called at
\* time now: deadline - Date.now(), NaN when the deadline is NaN.
getRemainingTime(md, built, now) ==
    IF md.deadline = "now+3000" THEN [nan |-> FALSE, ms |-> built + DEFAULT_DEADLINE_MS - now]
    ELSE IF md.deadline = "NaN" THEN [nan |-> TRUE, ms |-> 0]
    ELSE [nan |-> FALSE, ms |-> Num(md.deadline) - now]

Responses ==
    {Response(id, d, t, cc, ci) :
        id \in {UNDEF, "1"}, d \in {UNDEF, "1", "{"}, t \in {UNDEF, "t"},
        cc \in {UNDEF, "1", "{"}, ci \in {UNDEF, "1"}}

DeliveryInit ==
    /\ LoopStill
    /\ rawHeaders \in Responses
    /\ contextData = NoMeta
    /\ sink = FreshSink
    /\ UnitIdle

\* Date.now() advances.
Tick ==
    /\ clock < MaxTime
    /\ clock' = clock + 1
    /\ UNCHANGED <<mainvars, sink, lastOp, accepted, posted, nOps, val, resp, hdrs, meta,
                   builtAt, remaining, clientCalls, breaker, pending, lastExec, recovery>>

\* client.nextInvocation(), new InvokeContext(headers), attachEnvironmentData
Deliver ==
    /\ contextData = NoMeta
    /\ contextData' = InvokeContext(nextInvocationHeaders(rawHeaders))
    /\ builtAt' = clock
    /\ UNCHANGED <<loopvars, rawHeaders, sink, lastOp, accepted, posted, nOps, val, resp,
                   hdrs, meta, clock, remaining, clientCalls, breaker, pending, lastExec,
                   recovery>>

\* The handler was given a context: the id was there and no header was rejected.
ContextBuilt ==
    contextData # NoMeta /\ ~invokeIdThrows(contextData) /\ ~attachThrows(contextData)

\* context.getRemainingTimeInMillis()
getRemainingTimeInMillis ==
    /\ ContextBuilt /\ Len(remaining) < MaxReads
    /\ remaining' = Append(remaining, [at |-> clock,
                                       value |-> getRemainingTime(contextData, builtAt, clock)])
    /\ UNCHANGED <<mainvars, sink, lastOp, accepted, posted, nOps, val, resp, hdrs, meta,
                   clock, builtAt, clientCalls, breaker, pending, lastExec, recovery>>

DeliveryNext == Tick \/ Deliver \/ getRemainingTimeInMillis

DeliverySpec == DeliveryInit /\ [][DeliveryNext]_vars

\* ------------------------------------------------ RAPIDClient in isolation
\* Calls of the three report methods, each taken from the call to the
\* settling of the promise it returns.  http is how the BunRapidClient call
\* ended: "ok", "error" (it threw an Error: non-2xx status or transport
\* failure) or "thrown" (JSON.stringify let a value through that the result's
\* toJSON threw and that is not an Error).
HttpOutcomes == {"ok", "error", "thrown"}

\* What the callback given to the client does when called: the callbacks the
\* runtime passes return (scheduleIteration, a log line) or end the process
\* (process.exit); "throws" is a callback that throws an Error.
Callbacks == {"returns", "exits"}

\* The argument of the callback's first call.
firstArg(http) ==
    IF http = "ok" THEN "no argument"
    ELSE IF http = "error" THEN "err"
    ELSE "new Error(String(err))"

\* Mutant: a failed call is rethrown even when a callback was given.
settle_rethrows(hasCallback, http, cb) ==
    [callbackArgs |-> IF hasCallback THEN <<firstArg(http)>> ELSE <<>>,
     promise |-> IF hasCallback /\ cb = "exits" THEN "pending"
                 ELSE IF http = "ok" THEN "resolved" ELSE "rejected"]

\* try { await client.post...; if (callback) callback() } catch (err) {
\* if (callback) callback(Error) else throw err }: the arguments of each call
\* of the callback, in order, and how the returned promise settles.
settle(hasCallback, http, cb) ==
    IF ~hasCallback
    THEN [callbackArgs |-> <<>>,
          promise |-> IF http = "ok" THEN "resolved" ELSE "rejected"]
    ELSE IF cb = "returns" THEN [callbackArgs |-> <<firstArg(http)>>, promise |-> "resolved"]
    ELSE IF cb = "exits" THEN [callbackArgs |-> <<firstArg(http)>>, promise |-> "pending"]
    ELSE IF http = "ok"
    THEN \* the callback's own throw lands in the catch block
         [callbackArgs |-> <<firstArg(http), "err">>, promise |-> "rejected"]
    ELSE [callbackArgs |-> <<firstArg(http)>>, promise |-> "rejected"]

ClientCall(method, sent, hasCallback, http, cb) ==
    [method |-> method, sent |-> sent, hasCallback |-> hasCallback, http |-> http,
     callback |-> IF hasCallback THEN cb ELSE "none",
     callbackArgs |-> settle(hasCallback, http, cb).callbackArgs,
     promise |-> settle(hasCallback, http, cb).promise]

ClientInit ==
    /\ MainStill
    /\ sink = FreshSink
    /\ UnitIdle

\* The process is running: no callback has called process.exit.
CanPost ==
    /\ Len(clientCalls) < MaxClientCalls
    /\ \A i \in 1..Len(clientCalls) : clientCalls[i].callback # "exits"

ClientStill ==
    UNCHANGED <<mainvars, sink, lastOp, accepted, posted, nOps, val, resp, hdrs, meta,
                clock, builtAt, remaining, breaker, pending, lastExec, recovery>>

\* RAPIDClient.postInvocationResponse(response, id, callback)
postInvocationResponse(response, hasCallback, http, cb) ==
    /\ CanPost
    /\ clientCalls' = Append(clientCalls,
                             ClientCall("postInvocationResponse", <<response>>,
                                        hasCallback, http, cb))
    /\ ClientStill

\* RAPIDClient.postInvocationError(error, id, callback)
postInvocationError(error, hasCallback, http, cb) ==
    /\ CanPost
    /\ clientCalls' = Append(clientCalls,
                             ClientCall("postInvocationError", <<toRapidResponse(error)>>,
                                        hasCallback, http, cb))
    /\ ClientStill

\* RAPIDClient.postInitError(error, callback)
postInitError(error, hasCallback, http, cb) ==
    /\ CanPost
    /\ clientCalls' = Append(clientCalls,
                             ClientCall("postInitError", <<toRapidResponse(error)>>,
                                        hasCallback, http, cb))
    /\ ClientStill

ClientNext ==
    \/ \E r \in Results, hasCb \in BOOLEAN, h \in HttpOutcomes, cb \in Callbacks :
          postInvocationResponse(r, hasCb, h, cb)
    \/ \E e \in {ErrRange, StrErr}, hasCb \in BOOLEAN, h \in {"ok", "error"}, cb \in Callbacks :
          postInvocationError(e, hasCb, h, cb)
    \/ \E e \in {ErrRange, StrErr}, hasCb \in BOOLEAN, h \in {"ok", "error"}, cb \in Callbacks :
          postInitError(e, hasCb, h, cb)

ClientSpec == ClientInit /\ [][ClientNext]_vars

\* --------------------------------------------- CircuitBreaker in isolation
\* One breaker, executes whose fn settle in any order, and the clock.
\* CircuitBreaker.cleanupOldRequests
cleanupOldRequests(b, now) ==
    [b EXCEPT !.recentRequests =
        SelectSeq(@, LAMBDA r : r.timestamp > now - config.monitoringWindow)]

\* CircuitBreaker.transitionTo
transitionTo(b, newState, now) ==
    LET b1 == [b EXCEPT !.state = newState, !.stats.stateTransitions = @ + 1] IN
    CASE newState = "OPEN" -> [b1 EXCEPT !.nextAttemptTime = now + config.recoveryTimeout]
      [] newState = "HALF_OPEN" -> [b1 EXCEPT !.successCount = 0]
      [] newState = "CLOSED" -> [b1 EXCEPT !.failureCount = 0, !.successCount = 0]

\* Mutant: an OPEN breaker lets every call through.
executeEnter_alwaysRuns(b, now) ==
    [breaker |-> [cleanupOldRequests(b, now) EXCEPT !.stats.totalRequests = @ + 1],
     invoked |-> TRUE]

\* CircuitBreaker.execute up to the call of fn: the breaker it leaves, and
\* whether fn is called (otherwise execute has thrown).
executeEnter(b, now) ==
    LET b1 == cleanupOldRequests(b, now) IN
    IF b1.state = "OPEN" /\ now < b1.nextAttemptTime
    THEN [breaker |-> [b1 EXCEPT !.stats.rejectedRequests = @ + 1], invoked |-> FALSE]
    ELSE LET b2 == IF b1.state = "OPEN" THEN transitionTo(b1, "HALF_OPEN", now) ELSE b1 IN
         [breaker |-> [b2 EXCEPT !.stats.totalRequests = @ + 1], invoked |-> TRUE]

\* CircuitBreaker.onSuccess
onSuccess(b, timestamp, now) ==
    LET b1 == [b EXCEPT !.lastSuccessTime = timestamp,
                        !.recentRequests = Append(@, [timestamp |-> timestamp,
                                                      success |-> TRUE])] IN
    IF b1.state = "HALF_OPEN"
    THEN LET b2 == [b1 EXCEPT !.successCount = @ + 1] IN
         IF b2.successCount >= config.successThreshold
         THEN transitionTo(b2, "CLOSED", now) ELSE b2
    ELSE IF b1.state = "CLOSED"
    THEN [b1 EXCEPT !.failureCount = IF @ > 0 THEN @ - 1 ELSE 0]
    ELSE b1

\* CircuitBreaker.shouldOpenCircuit
shouldOpenCircuit(b) ==
    /\ Len(b.recentRequests) >= config.volumeThreshold
    /\ Len(SelectSeq(b.recentRequests, LAMBDA r : ~r.success)) >= config.failureThreshold

\* CircuitBreaker.onFailure
onFailure(b, timestamp, now) ==
    LET b1 == [b EXCEPT !.lastFailureTime = timestamp,
                        !.failureCount = @ + 1,
                        !.recentRequests = Append(@, [timestamp |-> timestamp,
                                                      success |-> FALSE])] IN
    IF b1.state = "HALF_OPEN" THEN transitionTo(b1, "OPEN", now)
    ELSE IF b1.state = "CLOSED" /\ shouldOpenCircuit(b1) THEN transitionTo(b1, "OPEN", now)
    ELSE b1

BreakerInit ==
    /\ MainStill
    /\ sink = FreshSink
    /\ UnitIdle

\* breaker.execute(fn), up to its rejection or to the call of fn
Execute ==
    /\ lastExec.n < MaxExec
    /\ breaker' = executeEnter(breaker, clock).breaker
    /\ pending' = IF executeEnter(breaker, clock).invoked THEN Append(pending, clock)
                  ELSE pending
    /\ lastExec' = [n |-> lastExec.n + 1, at |-> clock, before |-> breaker,
                    after |-> executeEnter(breaker, clock).breaker,
                    invoked |-> executeEnter(breaker, clock).invoked]
    /\ UNCHANGED <<mainvars, sink, lastOp, accepted, posted, nOps, val, resp, hdrs, meta,
                   clock, builtAt, remaining, clientCalls, recovery>>

\* The promise of the i-th pending fn settles and execute goes on after its
\* await: onSuccess, or onFailure and the rethrow.
FnSettle(i, ok) ==
    /\ i \in 1..Len(pending)
    /\ breaker' = IF ok THEN onSuccess(breaker, pending[i], clock)
                  ELSE onFailure(breaker, pending[i], clock)
    /\ pending' = SubSeq(pending, 1, i - 1) \o SubSeq(pending, i + 1, Len(pending))
    /\ UNCHANGED <<mainvars, sink, lastOp, accepted, posted, nOps, val, resp, hdrs, meta,
                   clock, builtAt, remaining, clientCalls, lastExec, recovery>>

BreakerNext ==
    \/ Tick
    \/ Execute
    \/ \E i \in 1..MaxExec, ok \in BOOLEAN : FnSettle(i, ok)

BreakerSpec == BreakerInit /\ [][BreakerNext]_vars

\* ---------------------------------------- ErrorRecoverySystem in isolation
\* Runs of executeWithRecovery(fn, {customStrategy}) without a circuit
\* breaker; each call of fn resolves or rejects with an error of some
\* ErrorType, as ErrorClassifier.classifyError finds it.
\* strategy.retryableErrors of the strategies used
retryableErrors == {"TRANSIENT", "UNKNOWN"}

\* ErrorClassifier.isRetryable
isRetryable(errorType) == errorType \in retryableErrors

RecoveryInit ==
    /\ MainStill
    /\ sink = FreshSink
    /\ UnitIdle

RecoveryStill ==
    UNCHANGED <<mainvars, sink, lastOp, accepted, posted, nOps, val, resp, hdrs, meta,
                clock, builtAt, remaining, clientCalls, breaker, pending, lastExec>>

\* executeWithRecovery(fn, options) up to the first call of fn: the for loop
\* starts with attemptCount = 1.
executeWithRecovery(maxRetries) ==
    /\ recovery.phase \in {"idle", "returned"} /\ recovery.runs < MaxRuns
    /\ recovery' = [recovery EXCEPT !.phase = "loop", !.runs = @ + 1,
                                    !.maxRetries = maxRetries,
                                    !.attemptCount = 1, !.invoked = 0,
                                    !.lastError = "none",
                                    !.result = NoRun.result,
                                    !.stats.totalAttempts = @ + 1]
    /\ RecoveryStill

\* After a retryable error: the sleep, attemptCount++ and the loop test; when
\* the test fails the loop is left and the failure returned.
afterRetryable(r) ==
    LET r1 == [r EXCEPT !.attemptCount = @ + 1] IN
    IF r1.attemptCount <= r1.maxRetries + 1 THEN r1
    ELSE [r1 EXCEPT !.phase = "returned",
                    !.result = [success |-> FALSE, attemptCount |-> r1.attemptCount]]

\* One pass of the loop body: fn is called and its promise settles, ok (then
\* errorType plays no part) or with an error of type errorType.
Attempt(ok, errorType) ==
    /\ recovery.phase = "loop"
    /\ LET r == [recovery EXCEPT !.invoked = @ + 1,
                                 !.stats.errorsByType[errorType] =
                                     IF ok THEN @ ELSE @ + 1] IN
       recovery' =
          IF ok
          THEN [r EXCEPT !.phase = "returned",
                         !.result = [success |-> TRUE, attemptCount |-> r.attemptCount],
                         !.stats.successfulRecoveries =
                             IF r.attemptCount > 1 THEN @ + 1 ELSE @]
          ELSE IF ~isRetryable(errorType)
          THEN [r EXCEPT !.phase = "returned", !.lastError = errorType,
                         !.result = [success |-> FALSE, attemptCount |-> r.attemptCount],
                         !.stats.permanentFailures = @ + 1]
          ELSE afterRetryable([r EXCEPT !.lastError = errorType])
    /\ RecoveryStill

RecoveryNext ==
    \/ \E m \in 0..MaxRetries : executeWithRecovery(m)
    \/ \E t \in ErrorTypes : Attempt(FALSE, t)
    \/ Attempt(TRUE, "UNKNOWN")

RecoverySpec == RecoveryInit /\ [][RecoveryNext]_vars

\* ------------------------------------------------------------ sanity
TypeOK ==
    /\ exitCode \in {-1, 0, 1, 128, 129}
    /\ polls \in 0..3 /\ served \in 0..(MaxInv + 1) /\ cur = served
    /\ hphase \in {"loading", "none", "sync", "returned", "pending", "settled", "posting",
                   "done", "failed"}
    /\ listener.kind \in {"noop", "default", "deferred", "streamExit", "streamNext"}
    /\ (listener.kind # "noop" => listener.id = cur /\ ~isBun)
    /\ \A i \in 1..Len(posts) : posts[i].id \in 0..cur

\* ------------------------------------------------------------ claims
\* Report calls for the current invocation, by kind and by issuing site.
PostsOf(P(_)) == {i \in 1..Len(posts) : posts[i].id = cur /\ P(posts[i])}
ContextPosts == PostsOf(LAMBDA p : p.via = "context")
DrainPosts == PostsOf(LAMBDA p : p.via = "drain")
ResponsePosts == PostsOf(LAMBDA p : p.kind = "response")
ErrorPosts == PostsOf(LAMBDA p : p.kind = "error")

\* Iterations scheduled or polling for the next invocation.
IterTasks == {i \in 1..Len(immediates) : immediates[i].kind \in {"iter", "schedIter"}}
Outstanding == polls + Cardinality(IterTasks)

\* C1: whatever sequence of succeed / fail / done / callback calls is made on
\* one invocation's context, at most one report call results from it, and a
\* report exists only once a call has won.
C1_FirstCallWins ==
    /\ Cardinality(ContextPosts) <= 1
    /\ (ContextPosts # {} => finished)

C1_Witness == nCalls >= 2 /\ Cardinality(ContextPosts) = 1

\* C2: the control plane never receives two reports for one invocation id.
C2_AtMostOneReport ==
    Cardinality({i \in 1..Len(posts) :
                    posts[i].id = cur /\ cur > 0 /\ posts[i].st = "ok"}) <= 1

\* C3 (as claimed): whatever the entry point, a winning call made while the
\* flag is true sends no report before the drain hook fires.
C3_EveryEntryPointDefers ==
    (finished /\ win.flag /\ ~firedSinceWin) => ContextPosts = {}

\* C3 (amended): the raw callback with a null error, winning while the flag
\* is true, sends no report before the drain hook fires.
C3_CallbackDefers ==
    (finished /\ win.ep = "callback" /\ win.err.tag = "null" /\ win.flag
              /\ ~firedSinceWin) => ContextPosts = {}

C3_Witness ==
    /\ finished /\ win.ep = "callback" /\ win.err.tag = "null" /\ win.flag
    /\ ~firedSinceWin /\ listener = DeferredListener(cur, win.result)

\* The winning call carries an error: fail, or done / callback with one.
WinIsError == win.ep = "fail" \/ win.err.tag # "null"

C6_DeferredCompletionCarriedOut ==
    (exitCode = 0 /\ finished /\ win.ep = "callback" /\ win.err.tag = "null" /\ win.flag)
        => \E i \in ResponsePosts : posts[i].result = win.result

\* C7 (as claimed): the winning call's report is a response with the value
\* when its error argument is null, an error report otherwise.
C7_NullErrorMeansResponse ==
    \A i \in ContextPosts :
        IF win.err.tag = "null"
        THEN posts[i].kind = "response" /\ posts[i].result = win.result
        ELSE posts[i].kind = "error"

\* C7 (amended): succeed, and done / callback with a null error, report a
\* response with the value; fail (a null error becoming 'handled') and
\* done / callback with an error report the error.
C7_ReportMatchesWinningCall ==
    \A i \in ContextPosts :
        IF ~WinIsError
        THEN posts[i].kind = "response" /\ posts[i].result = win.result
        ELSE /\ posts[i].kind = "error" /\ posts[i].result = "none"
             /\ posts[i].error.errorMessage =
                   Escape7F(IF win.err.tag = "null" THEN Handled.message
                            ELSE win.err.message)

C7_Witness ==
    \E i \in ContextPosts : win.ep = "fail" /\ win.err.tag = "null"
                            /\ posts[i].kind = "error"

ResolvedOnly == ~streaming /\ hphase = "settled" /\ nCalls = 1 /\ win.by = "then"
                /\ win.ep = "succeed"

ValuePosts == {i \in ResponsePosts : posts[i].result = win.result}

\* Fatal-path report calls (errorCallbacks), for any id.
FatalPosts == {i \in 1..Len(posts) : posts[i].via = "fatal"}

\* The loop goes on: an iteration is scheduled or polling (a fatal event ends
\* the process instead).
LoopContinues == FatalPosts = {} => Outstanding >= 1 /\ exitCode = -1

Threw == ~streaming /\ win.by = "catch" /\ win.err.tag = "error"

\* What C10 says of the report, given the errorType and errorMessage expected.
ThrowReported(type, message) ==
    /\ Cardinality(ContextPosts) = 1
    /\ ResponsePosts = {}
    /\ \A i \in ContextPosts :
          /\ posts[i].kind = "error"
          /\ posts[i].error.errorType = type
          /\ posts[i].error.errorMessage = message
          /\ posts[i].cb = "scheduleNext"
          /\ (posts[i].st # "inflight" => LoopContinues)
    /\ (FatalPosts = {} => exitCode = -1)

\* C10 (as claimed): a handler that throws an error with name T and message M
\* gets exactly one postInvocationError with errorType T and errorMessage M
\* and no postInvocationResponse; the process goes on and the next iteration
\* is scheduled once the report has settled.
C10_ThrowReportedVerbatim ==
    Threw => ThrowReported(win.err.name, win.err.message)

\* C10 (amended): the same, errorType and errorMessage being T and M with
\* every 0x7F replaced by %7F.
C10_ThrowReportedEscaped ==
    Threw => ThrowReported(Escape7F(win.err.name), Escape7F(win.err.message))

C10_Witness ==
    /\ Threw /\ win.err = ErrDel /\ polls = 1
    /\ \E i \in ContextPosts : posts[i].st = "ok"

\* ------------------------------------------------- claims: streaming mode
\* Calls of finalizeAndPostStream for the current invocation.
StreamPosts == PostsOf(LAMBDA p : p.via = "stream")

Settled(i) == posts[i].st # "inflight"

\* The sink body holds an error trailer.
HasTrailer(body) == \E j \in 1..Len(body) : body[j].kind = "trailer"

\* C11: in streaming mode every dispatched invocation is finalized and posted
\* exactly once, however the handler's run ended, and the next iteration is
\* scheduled only after that call has ended.
C11_FinalizedExactlyOnce ==
    (streaming /\ cur > 0) =>
        /\ Cardinality(StreamPosts) <= 1
        /\ (outcome.how # "none" => Cardinality(StreamPosts) = 1)
        /\ (Outstanding > 0 => \E i \in StreamPosts : Settled(i))

\* C12: in streaming mode a rejection with e ends the posted body with the
\* error trailer for e, the fatal path is not taken and the loop goes on.
C12_RejectionWrittenToSink ==
    (streaming /\ outcome.how = "rejected") =>
        /\ StreamPosts # {}
        /\ \A i \in StreamPosts :
              /\ posts[i].body # <<>>
              /\ posts[i].body[Len(posts[i].body)] = Trailer(toRapidResponse(outcome.err))
              /\ (Settled(i) /\ FatalPosts = {} => exitCode = -1)

\* C13: in streaming mode a handler that returns a value that is not
\* thenable gets a body with an error trailer posted, whatever it did with
\* the sink before returning.
C13_NonAwaitableIsSinkError ==
    (streaming /\ outcome.how = "value") =>
        /\ StreamPosts # {}
        /\ \A i \in StreamPosts : HasTrailer(posts[i].body)

\* C14: every body posted by finalizeAndPostStream comes from a sink in
\* terminal state (ended or errored), and is what that sink emitted.
C14_PostedSinkIsTerminal ==
    streaming => \A i \in StreamPosts :
                    writableFinished(sink) /\ posts[i].body = sink.body

\* The handler's promise resolved with the sink left open: the body posted
\* ends with the trailer of the forced error.
C14_Witness ==
    /\ streaming /\ outcome.how = "resolved"
    /\ \E i \in StreamPosts :
          /\ posts[i].body # <<>>
          /\ posts[i].body[Len(posts[i].body)] = Trailer(toRapidResponse(ErrNotEnded))

\* ------------------------------------------------- claims: fatal paths
\* Reports of a failed nextInvocation.
TransportPosts ==
    {i \in FatalPosts : posts[i].error = toRapidResponse(ErrTransport)}

ExpectedExit(p) == IF p.error = toRapidResponse(ErrRejection) THEN 128 ELSE 129

\* C16: once an invocation has been dispatched, an uncaught exception is
\* reported by postInvocationError and the process exits with 129, an
\* unhandled rejection likewise with 128; the exit comes only once the report
\* attempt has ended, also when that attempt failed.
C16_FatalReportedThenExit ==
    /\ \A i \in FatalPosts :
          posts[i].kind = "error" =>
              /\ posts[i].id > 0
              /\ (Settled(i) => exitCode = ExpectedExit(posts[i]))
    /\ (exitCode \in {128, 129} =>
          \E i \in FatalPosts : Settled(i) /\ exitCode = ExpectedExit(posts[i]))

C16_Witness ==
    /\ exitCode = 128 /\ immediates = <<>>
    /\ \E i \in FatalPosts : posts[i].kind = "error" /\ posts[i].st = "failed"

\* C17: a failure before the first invocation is received is reported by
\* postInitError before the process ends.
C17_InitFailureReported ==
    (exitCode # -1 /\ served = 0) =>
        \E i \in 1..Len(posts) : posts[i].kind = "initError" /\ Settled(i)

\* C18: postInvocationError is issued only against the invocation being
\* handled, never once its report has ended or before the first one.
C18_ErrorOnlyDuringInvocation ==
    [][\A i \in 1..Len(posts') :
          (i > Len(posts) /\ posts'[i].kind = "error") =>
              (cur > 0 /\ posts'[i].id = cur /\ ~Reported(cur))]_vars

\* C19: in buffered mode, when the report call made by complete / postError
\* fails, the process goes on and the next iteration is scheduled once.
C19_FailedReportStillSchedules ==
    [][\A i \in 1..Len(posts) :
          (/\ Len(posts') = Len(posts)
           /\ posts[i].via = "context" /\ posts[i].st = "inflight"
           /\ posts'[i].st = "failed") =>
              /\ immediates' = Append(immediates, IterTask)
              /\ exitCode' = -1]_vars

C19_Witness ==
    /\ ~streaming /\ exitCode = -1 /\ polls = 1 /\ FatalPosts = {}
    /\ \E i \in ContextPosts : posts[i].st = "failed"

\* C20: in streaming mode, when the call that posts the streamed response
\* fails, the fatal path is taken instead of scheduling the next iteration.
C20_FailedStreamPostIsFatal ==
    streaming => \A i \in StreamPosts :
        posts[i].st = "failed" =>
            /\ Outstanding = 0
            /\ listener.kind # "streamNext"
            /\ \E j \in FatalPosts : posts[j].id = cur

\* ------------------------------------------------ claims on the sink
Posted == posted # NotPosted
Trailers(body) == {j \in 1..Len(body) : body[j].kind = "trailer"}
Chunks(body) == {j \in 1..Len(body) : body[j].kind = "chunk"}
Called(op) == lastOp.op = op
WasOpen == ~writableFinished(lastOp.before)

\* JSON of the default prelude, token by token.
DefaultPreludeJson ==
    <<"{", "\"statusCode\"", ":", "200", ",", "\"cookies\"", ":", "[", "]", ",",
      "\"headers\"", ":", "{", QUOTE, "content-type", QUOTE, ":", QUOTE,
      "application/octet-stream", QUOTE, "}", "}">>

\* C21: when the chunks accepted by the sink were followed by end() and no
\* error(), the byte stream posted is JSON(prelude), then 8 zero bytes, then the
\* accepted chunks in write order and nothing more; without overrides and
\* without a content type set by the handler the prelude's JSON is that of
\* {statusCode: 200, cookies: [], headers: {content-type: application/octet-stream}}.
C21_StreamIsPreludeDelimiterChunks ==
    Posted /\ ~sink.errored =>
        /\ posted.stream = TextEncode(metadataPrelude(posted.prelude))
                           \o <<NUL, NUL, NUL, NUL, NUL, NUL, NUL, NUL>> \o accepted
        /\ (~posted.ov.given /\ ~sink.contentTypeSet =>
                metadataPrelude(posted.prelude) = DefaultPreludeJson)

C21_Witness ==
    /\ Posted /\ ~sink.errored /\ ~posted.ov.given /\ ~sink.contentTypeSet
    /\ accepted = <<"h", "i", "C3", "A9">>

\* The trailer expected for the value e given to error().
ExpectedTrailer(e) ==
    <<NUL, NUL, NUL, NUL, NUL, NUL, NUL, NUL>>
    \o <<"Lambda-Runtime-Function-Error-Type", ":">> \o toRapidResponse(e).errorType
    \o <<"\n">>
    \o <<"Lambda-Runtime-Function-Error-Body", ":">> \o trailerJson(toRapidResponse(e))
    \o <<"\n">>

\* C22: error(e) on a sink that is not terminal leaves the bytes accepted
\* before it in place and appends, as the last thing in the stream, 8 zero
\* bytes and the two trailer lines built from toRapidResponse(e); the sink is
\* terminal afterwards and the posted stream ends with that trailer.
C22_ErrorAppendsTrailerLast ==
    Called("error") /\ WasOpen =>
        /\ readableBytes(lastOp.before.body) = accepted
        /\ readableBytes(sink.body) = accepted \o ExpectedTrailer(lastOp.err)
        /\ writableFinished(sink)
        /\ (Posted => posted.stream = TextEncode(metadataPrelude(posted.prelude))
                                      \o delimiterBytes \o accepted
                                      \o ExpectedTrailer(lastOp.err))

C22_Witness ==
    /\ Called("error") /\ WasOpen /\ Posted
    /\ accepted = <<"h", "i">> /\ lastOp.err = ErrRange

\* C23: once the sink is terminal it stays terminal; a later write returns
\* false, and a later write, end or error neither throws nor changes what was
\* enqueued; so there is never more than one trailer, and none on a sink that
\* was ended without an error.
C23_TerminalIsAbsorbing ==
    /\ ~WasOpen => writableFinished(sink)
    /\ ~WasOpen /\ lastOp.op \in {"write", "end", "error"} =>
           /\ sink.body = lastOp.before.body
           /\ lastOp.ret # "throws"
           /\ (Called("write") => lastOp.ret = "false")
    /\ Cardinality(Trailers(sink.body)) <= 1
    /\ (sink.ended /\ ~sink.errored => Trailers(sink.body) = {})

C23_Witness ==
    /\ ~WasOpen /\ Called("write") /\ validChunk(lastOp.chunk)
    /\ lastOp.before.errored /\ lastOp.ret = "false"

\* C24: write on a sink that is not terminal, with a chunk that is not a
\* string, Buffer or Uint8Array, returns false without throwing, adds no body
\* bytes, appends the trailer of a TypeError and makes the sink terminal.
C24_InvalidChunkIsSinkError ==
    Called("write") /\ WasOpen /\ lastOp.chunk.type \notin {"string", "Buffer", "Uint8Array"} =>
        /\ lastOp.ret = "false"
        /\ Chunks(sink.body) = Chunks(lastOp.before.body)
        /\ readableBytes(lastOp.before.body) = accepted
        /\ Len(sink.body) = Len(lastOp.before.body) + 1
        /\ sink.body[Len(sink.body)].kind = "trailer"
        /\ sink.body[Len(sink.body)].error.errorType = <<"TypeError">>
        /\ writableFinished(sink)

C24_Witness ==
    /\ Called("write") /\ WasOpen /\ lastOp.chunk = NumChunk
    /\ accepted = <<"h", "i">> /\ sink.errored

\* The content-type keys of a header object, whatever their letter case.
ContentTypeKeys(h) == {i \in 1..Len(h) : h[i][1] \in {"content-type", "Content-Type"}}

\* The content type C25 expects: the override's, else the sink's.
ExpectedContentType ==
    IF Truthy(Get(posted.ov.headers, "content-type"))
    THEN Get(posted.ov.headers, "content-type")
    ELSE IF Truthy(Get(posted.ov.headers, "Content-Type"))
    THEN Get(posted.ov.headers, "Content-Type")
    ELSE sink.contentType

\* C25: the content-type of the prelude emitted by finalizeAndPostStream is
\* the override's when one is given under either spelling, else the one the
\* handler set on the sink, else application/octet-stream, and the prelude has
\* exactly one content-type header.
C25_OneContentTypeHeader ==
    Posted =>
        /\ Get(posted.prelude.headers, "content-type") = ExpectedContentType
        /\ (~sink.contentTypeSet => sink.contentType = "application/octet-stream")
        /\ Cardinality(ContentTypeKeys(posted.prelude.headers)) = 1

\* C26: setContentType is rejected with InvalidStreamingOperation, leaving the
\* sink as it was, when the content type was set before or a chunk was accepted
\* before; otherwise it succeeds and the sink holds the given content type.
C26_ContentTypeSetOnce ==
    Called("setContentType") =>
        IF lastOp.before.contentType # "application/octet-stream"
           \/ Chunks(lastOp.before.body) # {}
        THEN lastOp.ret = "throws" /\ sink = lastOp.before
        ELSE /\ lastOp.ret = "void"
             /\ sink.contentType = lastOp.ctype
             /\ sink = [lastOp.before EXCEPT !.contentType = lastOp.ctype,
                                             !.contentTypeSet = TRUE]

C26_Witness ==
    /\ Called("setContentType") /\ lastOp.ret = "throws"
    /\ lastOp.before.contentType = "text/plain" /\ lastOp.ctype = "text/html"
    /\ sink.contentType = "text/plain"

\* ------------------------------------------ claims on InvokeContext
\* The header object h with the keys spelt in the letter cases cs.
Recased(h, cs) == [i \in 1..Len(h) |-> <<Key(h[i][1].name, cs[i]), h[i][2]>>]

\* C27: a header object that differs from the one given only in the letter
\* case of its keys yields the same metadata (invokeId, tenantId, deadline,
\* function ARN, client context, identity).
C27_HeaderKeysCaseInsensitive ==
    meta # NoMeta =>
        \A cs \in [1..Len(hdrs) -> {"lower", "Title"}] :
            DistinctKeys(Recased(hdrs, cs)) => InvokeContext(Recased(hdrs, cs)) = meta

C27_Witness ==
    /\ meta # NoMeta /\ Len(hdrs) = 2
    /\ hdrs[1] = <<Key("lambda-runtime-aws-request-id", "Title"), "1">>
    /\ hdrs[2] = <<Key("lambda-runtime-client-context", "Title"), "1">>
    /\ meta.invokeId = "1" /\ meta.clientContext = <<"json", "1">>

\* ---------------------------------------- claims on toRapidResponse
Converted == resp # NoError
Structured(v) ==
    \/ v.tag = "error"
    \/ v.tag = "errorlike" /\ v.name # <<>> /\ v.message # <<>> /\ v.stack # <<>>

HasDel(str) == \E i \in 1..Len(str) : str[i] = DEL

\* C29: no errorType and no errorMessage sent in a stream's error trailer
\* contains the character 0x7F.
C29_NoDelOnWire ==
    Posted =>
        \A j \in Trailers(sink.body) :
            ~HasDel(sink.body[j].error.errorType) /\ ~HasDel(sink.body[j].error.errorMessage)

\* The client-context header of the current invocation is present and is not
\* valid JSON.
InvalidJsonDelivered == cur > 0 /\ Truthy(rawHeaders.cc) /\ ~validJson(rawHeaders.cc)

\* C30: an invocation delivered with a client-context header that is not valid
\* JSON is never handed to the handler, and once a report for it has ended an
\* error naming ClientContext was reported for it and the process runs on.
C30_InvalidHeaderIsInvocationError ==
    InvalidJsonDelivered =>
        /\ outcome.how \notin {"value", "resolved", "rejected"}
        /\ (Reported(cur) =>
                \E i \in ErrorPosts :
                    posts[i].error.errorMessage = <<"Cannot parse", "ClientContext", "as json">>)

\* ------------------------------------------------ claims C31 to C39
\* Report calls that carry the failure of the invokeId getter.
MissingIdPosts ==
    {i \in 1..Len(posts) : posts[i].error.errorType = ErrMissingId.name}

\* C31: an invocation delivered without a request id is not dispatched: the
\* step that receives it leaves the handler, the completion state, the error
\* callbacks and the drain hook as they were and schedules no iteration, it
\* hands the failure to the fatal error callback (report, then exit 129), and
\* the end of that report ends the process without scheduling anything.
C31_MissingIdIsFatal ==
    [][/\ (polls' = polls - 1 /\ ~Truthy(rawHeaders'.id)) =>
            /\ UNCHANGED <<hphase, cur, served, errorCb, listener, finished,
                           isCompleteInvoked, nCalls, outcome, immediates, exitCode>>
            /\ Len(posts') = Len(posts) + 1
            /\ posts'[Len(posts')].via = "fatal"
            /\ posts'[Len(posts')].cb = "exit129"
       /\ \A i \in MissingIdPosts :
            (posts[i].st = "inflight" /\ Len(posts') = Len(posts)
             /\ posts'[i].st # "inflight") =>
                exitCode' = 129 /\ immediates' = immediates
      ]_vars

\* An invocation without a request id was received as the first one, its
\* failure was reported and the process has ended with no handler run.
C31_Witness ==
    /\ exitCode = 129 /\ cur = 0 /\ hphase = "none" /\ immediates = <<>>
    /\ ~Truthy(rawHeaders.id)
    /\ \E i \in MissingIdPosts : posts[i].st # "inflight"

\* C32: the tenantId on the context given to the handler is the tenant id of
\* the control plane's response, and undefined exactly when there was none.
C32_TenantIdIsDelivered ==
    ContextBuilt => contextData.tenantId = rawHeaders.tenant

\* The deadline of the context given to the handler, as the claim has it.
ClaimedDeadline ==
    IF rawHeaders.deadline = UNDEF THEN builtAt + DEFAULT_DEADLINE_MS
    ELSE Num(rawHeaders.deadline)

\* C33: every reading of getRemainingTimeInMillis is the deadline minus the
\* time of the call, the deadline being the one the control plane sent (a
\* decimal number), or the time the context was built + 3000 when it sent none.
C33_RemainingIsDeadlineMinusNow ==
    rawHeaders.deadline \in {UNDEF, "0", "1"} =>
        \A i \in 1..Len(remaining) :
            /\ ~remaining[i].value.nan
            /\ remaining[i].value.ms = ClaimedDeadline - remaining[i].at

\* The part of C33 the code keeps: with a deadline sent, two readings differ by
\* the time between them.
ReadingsNotCached ==
    rawHeaders.deadline \in {"0", "1"} =>
        \A i, j \in 1..Len(remaining) :
            remaining[i].value.ms - remaining[j].value.ms = remaining[j].at - remaining[i].at

\* C34: in streaming mode, once the report step has ended and scheduleNext
\* has run, the next iteration is on its way: it is scheduled (flag false, the
\* drain hook left reset), or its scheduling is registered on the drain hook
\* (flag true) and carried out when the hook fires, so the loop does not stop.
C34_StreamingNextIsScheduled ==
    (streaming /\ hphase = "done" /\ FatalPosts = {}) =>
        /\ exitCode = -1
        /\ (Outstanding >= 1 \/ listener = StreamNextListener(cur))

C36_WinnerRemovesDefaultListener ==
    [][/\ (~streaming /\ finished') => listener'.kind # "default"
       /\ (~streaming /\ finished) =>
            \A i \in 1..Len(posts') : i > Len(posts) => posts'[i].via # "drain"
      ]_vars

\* The callback won with the flag true, the drain hook has fired since and
\* carried out the deferred completion; no default response was posted.
C36_Witness ==
    /\ ~streaming /\ ~isBun /\ finished /\ firedSinceWin
    /\ DrainPosts = {}
    /\ \E i \in ResponsePosts : posts[i].result = win.result /\ posts[i].via = "context"

OpenWaiting ==
    /\ lastExec.n > 0 /\ lastExec.before.state = "OPEN"
    /\ lastExec.at < lastExec.before.nextAttemptTime
OpenElapsed ==
    /\ lastExec.n > 0 /\ lastExec.before.state = "OPEN"
    /\ lastExec.at >= lastExec.before.nextAttemptTime

\* C38: an execute that finds the breaker OPEN before nextAttemptTime rejects
\* without calling fn, adds one to rejectedRequests and leaves totalRequests
\* and the state alone; one that finds it OPEN at or after nextAttemptTime
\* moves it to HALF_OPEN, counts the request and calls fn.
C38_OpenBreakerRejects ==
    /\ OpenWaiting =>
          /\ ~lastExec.invoked
          /\ lastExec.after.state = "OPEN"
          /\ lastExec.after.stats.totalRequests = lastExec.before.stats.totalRequests
          /\ lastExec.after.stats.rejectedRequests =
                 lastExec.before.stats.rejectedRequests + 1
          /\ breaker.stats.totalRequests = lastExec.before.stats.totalRequests
    /\ OpenElapsed =>
          /\ lastExec.invoked
          /\ lastExec.after.state = "HALF_OPEN"
          /\ lastExec.after.stats.totalRequests =
                 lastExec.before.stats.totalRequests + 1
          /\ lastExec.after.stats.rejectedRequests = lastExec.before.stats.rejectedRequests

\* The breaker opened, an execute was rejected while it waited, and the
\* execute after the timeout went through and fn is running.
C38_Witness ==
    /\ OpenElapsed
    /\ breaker.stats.rejectedRequests >= 1
    /\ breaker.state = "HALF_OPEN"
    /\ pending # <<>>

\* The part of C39 the code keeps: fn is called at most maxRetries + 1 times,
\* and never again after a success or a non-retryable error.
AttemptsBounded ==
    /\ recovery.invoked <= recovery.maxRetries + 1
    /\ (recovery.phase = "loop" =>
          recovery.lastError \in {"none"} \cup retryableErrors)

\* C39: fn is called at most maxRetries + 1 times and the attemptCount of the
\* RecoveryResult is the number of calls of fn made, whether the run ended
\* with a success, a non-retryable error or the retries exhausted.
C39_AttemptCountIsInvocations ==
    recovery.phase = "returned" =>
        /\ recovery.invoked <= recovery.maxRetries + 1
        /\ recovery.result.attemptCount = recovery.invoked
====
